---- MODULE Spec2Model ----
(***************************************************************************)
(* A model of flux-link's execution core: the tick scheduler               *)
(* (chain-manager), the Environment and its FluxMeta metadata, argument    *)
(* adaptation (handle_args) and the four composition kinds (Chain,         *)
(* LoopChain, ParallelChain, Branch).                                      *)
(*                                                                         *)
(* JavaScript values are integers: small numbers are user values, 0 and 1  *)
(* double as false and true, ErrBase+i are Error objects, ArrBase+i is a   *)
(* reference to the i-th array of the heap `arrs`, EnvBase+e is a          *)
(* reference to Environment e.  Closures are records [k, a, x]: k names    *)
(* the function, a its activation (the apply() call whose variables it     *)
(* closes over), x a bound argument.                                       *)
(***************************************************************************)
EXTENDS Integers, Sequences, FiniteSets, TLC

VARIABLES
    prog,      \* the compositions built by the caller, and how it invokes the root
    pc,        \* the caller's position: "start" before invoke(), "running" after it
    envs,      \* the Environments (1 is the caller's, the others are LocalEnvironments)
    ctxs,      \* the Context nodes of all call-context trees
    acts,      \* activations: the closure variables of every apply() call
    arrs,      \* arrays allocated by the library (ParallelChain results)
    tq,        \* chain-manager queue[0..next-1]
    tpos,      \* runTick's loop variable idx
    tickSet,   \* chain-manager tickSet
    nt,        \* the host's process.nextTick queue
    pend,      \* continuations a step kept to invoke from a later host event
    hist,      \* what user code observed: steps run, handlers run, after fired
    logs,      \* what the logging sink received
    crashed,   \* a native failure escaped to the host
    counts,    \* scheduler counters: host turns, drains, queue entries run
    sched,     \* what the chain-manager was asked and did: queue, run, done
    ha         \* the state of the handle_args harness (see ArgsSpec)

vars == <<prog, pc, envs, ctxs, acts, arrs, tq, tpos, tickSet, nt, pend, hist,
          logs, crashed, counts, sched, ha>>

-----------------------------------------------------------------------------
(* Bounds of the model *)

MaxSteps == 3        \* steps in a generated Serial Chain
MaxIter == 3         \* times a Loop Chain condition yields true
MaxBranches == 3     \* branches of a generated Parallel Chain
MaxArgs == 3         \* arguments / stack values of the handle_args harness
MaxDepth == 3        \* nesting depth of the chains of the exception programs
MaxEdits == 2        \* structural mutations of a chain before it is invoked
MaxLateEdits == 1    \* mutations of a composition after the root was invoked

(* Encoding of JavaScript values.  The integers 0..99 are numbers, and 0   *)
(* also stands for false; null and undefined are values of their own.      *)

Null == 0 - 3
Undef == 0 - 1
ErrBase == 100
ArrBase == 200
EnvBase == 300
TypeError == 199
Unset == 0 - 2        \* a hole of `new Array(n)`

-----------------------------------------------------------------------------
(* ChainBase.prototype.handle_args, on the stack array and the argument    *)
(* array: Array.prototype.splice(start, count) with a negative start       *)
(* counts from the end and is clamped at 0.                                *)

SpliceStart(len, start) == IF len + start > 0 THEN len + start ELSE 0

handle_args_push_front(stack, params, args) ==
    LET missing == params - Len(args) IN
    IF missing = 0 THEN [stack |-> stack, args |-> args]
    ELSE IF missing > 0
    THEN LET from == SpliceStart(Len(stack), 0 - missing)
         IN  [stack |-> SubSeq(stack, 1, from),
              args  |-> SubSeq(stack, from + 1, Len(stack)) \o args]
    ELSE LET from == SpliceStart(Len(args), missing)
         IN  [stack |-> SubSeq(args, from + 1, Len(args)) \o stack,
              args  |-> SubSeq(args, 1, from)]

handle_args_takes_bottom(stack, params, args) ==
    LET missing == params - Len(args) IN
    IF missing = 0 THEN [stack |-> stack, args |-> args]
    ELSE IF missing > 0
    THEN LET upto == IF missing < Len(stack) THEN missing ELSE Len(stack)
         IN  [stack |-> SubSeq(stack, upto + 1, Len(stack)),
              args  |-> SubSeq(stack, 1, upto) \o args]
    ELSE LET from == SpliceStart(Len(args), missing)
         IN  [stack |-> stack \o SubSeq(args, from + 1, Len(args)),
              args  |-> SubSeq(args, 1, from)]

handle_args_newest_first(stack, params, args) ==
    LET missing == params - Len(args) IN
    IF missing = 0 THEN [stack |-> stack, args |-> args]
    ELSE IF missing > 0
    THEN LET from == SpliceStart(Len(stack), 0 - missing)
         IN  [stack |-> SubSeq(stack, 1, from),
              args  |-> [k \in 1..(Len(stack) - from) |-> stack[Len(stack) - k + 1]] \o args]
    ELSE LET from == SpliceStart(Len(args), missing)
         IN  [stack |-> stack \o SubSeq(args, from + 1, Len(args)),
              args  |-> SubSeq(args, 1, from)]

handle_args_drops_surplus(stack, params, args) ==
    LET missing == params - Len(args) IN
    IF missing = 0 THEN [stack |-> stack, args |-> args]
    ELSE IF missing > 0
    THEN LET from == SpliceStart(Len(stack), 0 - missing)
         IN  [stack |-> SubSeq(stack, 1, from),
              args  |-> SubSeq(stack, from + 1, Len(stack)) \o args]
    ELSE LET from == SpliceStart(Len(args), missing)
         IN  [stack |-> stack, args |-> SubSeq(args, 1, from)]

handle_args(stack, params, args) ==
    LET missing == params - Len(args) IN
    IF missing = 0 THEN [stack |-> stack, args |-> args]
    ELSE IF missing > 0
    THEN LET from == SpliceStart(Len(stack), 0 - missing)
         IN  [stack |-> SubSeq(stack, 1, from),
              args  |-> SubSeq(stack, from + 1, Len(stack)) \o args]
    ELSE LET from == SpliceStart(Len(args), missing)
         IN  [stack |-> stack \o SubSeq(args, from + 1, Len(args)),
              args  |-> SubSeq(args, 1, from)]

(* Array.prototype.splice(start, count, items...) on a dense array, for    *)
(* count >= 0: the array it leaves                                         *)
splice_clamps_inside(list, start, count, items) ==
    LET len == Len(list)
        from == IF start < 0 THEN SpliceStart(len, start)
                ELSE IF start < len THEN start
                ELSE IF len > 0 THEN len - 1 ELSE 0
        del == IF count < len - from THEN count ELSE len - from
    IN  SubSeq(list, 1, from) \o items \o SubSeq(list, from + del + 1, len)

splice(list, start, count, items) ==
    LET len == Len(list)
        from == IF start < 0 THEN SpliceStart(len, start)
                ELSE IF start < len THEN start ELSE len
        del == IF count < len - from THEN count ELSE len - from
    IN  SubSeq(list, 1, from) \o items \o SubSeq(list, from + del + 1, len)

-----------------------------------------------------------------------------
(* Closures.  NoFn is JavaScript's undefined where a function is expected. *)

Fn(k, a, x) == [k |-> k, a |-> a, x |-> x]
NoFn == Fn("undefined", 0, 0)
Top == Fn("top", 0, 0)                   \* the caller's terminal after
TopOf(e) == Fn("top", 0, e)              \* the after of a further invocation, on Environment e
TopFail == Fn("topfail", 0, 0)           \* a terminal after that fails natively
RunTickFn == Fn("runTick", 0, 0)
Glue(a, except) == Fn("glue", a, except) \* __after_glue of make_after_glue
Inner(a) == Fn("inner", a, 0)            \* __chain_inner of make_serial_chain
TailFn(a) == Fn("tail", a, 0)            \* __tail of make_serial_chain
Handle(a) == Fn("handle", a, 0)          \* LoopChain apply: handle
Check(a) == Fn("check", a, 0)            \* LoopChain apply: check
Term(a, id) == Fn("term", a, id)         \* parallel_terminator.bind(null, id)
ExceptionHandler(a) == Fn("exception_handler", a, 0)
InnerHandler(a) == Fn("inner_handler", a, 0)

(* Function.name of each closure, as helpers.fname reads it *)
FnName(c) ==
    CASE c.k = "glue" -> "__after_glue"
      [] c.k = "inner" -> "__chain_inner"
      [] c.k = "bcond" -> "__chain_inner"
      [] c.k = "tail" -> "__tail"
      [] c.k = "handle" -> "handle"
      [] c.k = "check" -> "check"
      [] c.k = "term" -> "bound parallel_terminator"
      [] c.k = "top" -> "done"
      [] c.k = "topfail" -> "done"
      [] OTHER -> ""

fname(name, altname) ==
    IF name # "" THEN name ELSE IF altname # "" THEN altname ELSE "(anonymous)"

hide_function(name) == name = "__after_glue" \/ name = "__chain_inner"

Truthy(v) == v # 0 /\ v # Null /\ v # Undef /\ v # Unset

-----------------------------------------------------------------------------
(* The mutable heap, as one record s; exn holds the value of a native      *)
(* exception in flight (any value can be thrown), and is empty when there  *)
(* is none.                                                                *)

NewEnv(parent, tid) ==
    [stack |-> <<>>, exstack |-> <<>>, exafter |-> NoFn, first |-> Null,
     cur |-> Null, cstack |-> <<>>, parent |-> parent, tid |-> tid]

NewContext(name, head) == [name |-> name, next |-> Null, child |-> Null, head |-> head]

Raise(s, v) == [s EXCEPT !.exn = <<v>>]

(* FluxMeta *)

push_stack(s, e, v) == [s EXCEPT !.envs[e].stack = Append(@, v)]

pop_stack(s, e) ==
    LET st == s.envs[e].stack IN
    IF st = <<>> THEN s ELSE [s EXCEPT !.envs[e].stack = SubSeq(st, 1, Len(st) - 1)]

stack_top(s, e) ==
    LET st == s.envs[e].stack IN IF st = <<>> THEN Undef ELSE st[Len(st)]

push_exception_handler(s, e, h, after) ==
    [s EXCEPT !.envs[e].exstack = Append(@, [h |-> h, after |-> after])]

exception_outermost(s, e) ==
    LET xs == s.envs[e].exstack IN IF xs = <<>> THEN NoFn ELSE xs[1].h

exception_top(s, e) ==
    LET xs == s.envs[e].exstack IN IF xs = <<>> THEN NoFn ELSE xs[Len(xs)].h

pop_exception_handler(s, e) ==
    LET xs == s.envs[e].exstack IN
    IF xs = <<>> THEN [s EXCEPT !.envs[e].exafter = NoFn]
    ELSE [s EXCEPT !.envs[e].exstack = SubSeq(xs, 1, Len(xs) - 1),
                   !.envs[e].exafter = xs[Len(xs)].after]

push_ctx(s, e, name) ==
    LET root == Len(s.ctxs) + 1
        s1 == IF s.envs[e].first = Null
              THEN [s EXCEPT !.ctxs = Append(@, NewContext(name, FALSE)),
                             !.envs[e].first = root, !.envs[e].cur = root]
              ELSE s
        cur == s1.envs[e].cur
        head == Len(s1.ctxs) + 1
    IN  IF cur = Undef \/ cur = Null THEN Raise(s1, TypeError)
        ELSE [s1 EXCEPT !.ctxs = Append([@ EXCEPT ![cur].child = head],
                                        NewContext("__ContextHead__", TRUE)),
                        !.envs[e].cstack = Append(@, cur),
                        !.envs[e].cur = head]

push_call(s, e, name) ==
    LET cur == s.envs[e].cur
        id == Len(s.ctxs) + 1
    IN  IF cur = Undef \/ cur = Null THEN Raise(s, TypeError)
        ELSE [s EXCEPT !.ctxs = Append([@ EXCEPT ![cur].next = id], NewContext(name, FALSE)),
                       !.envs[e].cur = id]

pop_ctx(s, e) ==
    LET cs == s.envs[e].cstack IN
    IF cs = <<>> THEN [s EXCEPT !.envs[e].cur = Undef]
    ELSE [s EXCEPT !.envs[e].cur = cs[Len(cs)],
                   !.envs[e].cstack = SubSeq(cs, 1, Len(cs) - 1)]

RECURSIVE bt_walk_child_first(_, _, _)
bt_walk_child_first(cs, ctx, depth) ==
    IF ctx = Null \/ ctx = Undef THEN <<>>
    ELSE LET c == cs[ctx]
             here == IF c.head THEN <<>> ELSE << <<c.name, depth>> >>
         IN  here \o bt_walk_child_first(cs, IF c.child # Null THEN c.child ELSE c.next,
                                         depth + (IF c.child # Null THEN 1 ELSE 0))

RECURSIVE bt_walk(_, _, _)
bt_walk(cs, ctx, depth) ==
    IF ctx = Null \/ ctx = Undef THEN <<>>
    ELSE LET c == cs[ctx]
             here == IF c.head THEN <<>> ELSE << <<c.name, depth>> >>
         IN  here \o bt_walk(cs, IF c.next # Null THEN c.next ELSE c.child,
                             depth + (IF c.next = Null THEN 1 ELSE 0))

get_back_trace(s, e) == bt_walk(s.ctxs, s.envs[e].first, 0)

(* chain-manager *)

queueTick_unbatched(s, fn, args) == [s EXCEPT !.nt = Append(@, [c |-> fn, args |-> args])]

queueTick_always_registers(s, fn, args) ==
    [s EXCEPT !.tq = Append(@, [c |-> fn, args |-> args]),
              !.sched = Append(@, [op |-> "queue", c |-> fn, args |-> args, drain |-> 0]),
              !.nt = Append(@, [c |-> RunTickFn, args |-> <<>>]), !.tickSet = TRUE]

queueTick(s, fn, args) ==
    LET s1 == [s EXCEPT !.tq = Append(@, [c |-> fn, args |-> args]),
                        !.sched = Append(@, [op |-> "queue", c |-> fn, args |-> args,
                                             drain |-> 0])] IN
    IF s.tickSet THEN s1
    ELSE [s1 EXCEPT !.nt = Append(@, [c |-> RunTickFn, args |-> <<>>]), !.tickSet = TRUE]

nextTick(s, fn, args) == [s EXCEPT !.nt = Append(@, [c |-> fn, args |-> args])]

-----------------------------------------------------------------------------
(* The caller's program: prog.nodes[n] is a plain function (type "fn",     *)
(* with the behaviour beh of its body) or a composition object.            *)

Node(n) == prog.nodes[n]

(* mkfn(fn, params).params as ChainBase.prototype.wrap computes it for the *)
(* function or composition v, when it is called: a function's own arity,   *)
(* a Chain's length getter (the params of the record of its first          *)
(* function, 0 when empty), 0 for a Branch, which has no length.  The      *)
(* record keeps that number: v.kp[i] is the params of the record fns[i],   *)
(* v.cp, v.tp and v.fp those of the records cond, if_true and if_false.    *)
wrap_params_parallel_zero(v) ==
    IF v.type = "fn" THEN v.params
    ELSE IF v.type \in {"branch", "parallel"} THEN 0
    ELSE IF v.kp # <<>> THEN v.kp[1] ELSE 0

wrap_params(v) ==
    IF v.type = "fn" THEN v.params
    ELSE IF v.type = "branch" THEN 0
    ELSE IF v.kp # <<>> THEN v.kp[1] ELSE 0

(* the constructors of the compositions nodes[1..i], in this order: each   *)
(* wraps what it was given, functions and compositions built before it     *)
RECURSIVE Wrapped(_, _)
Wrapped(nodes, i) ==
    IF i = 0 THEN nodes
    ELSE LET built == Wrapped(nodes, i - 1)
             v == built[i]
         IN  IF v.type = "fn" THEN built
             ELSE [built EXCEPT ![i] =
                     [v EXCEPT !.kp = [k \in 1..Len(v.kids) |-> wrap_params(built[v.kids[k]])],
                               !.cp = IF v.cond = 0 THEN 0 ELSE wrap_params(built[v.cond]),
                               !.tp = IF v.ift = 0 THEN 0 ELSE wrap_params(built[v.ift]),
                               !.fp = IF v.iff = 0 THEN 0 ELSE wrap_params(built[v.iff])]]

(* hist: what user code saw, stamped with the scheduler counters *)
Record(s, ev, n, e, args, popped) ==
    [s EXCEPT !.hist = Append(@, [ev |-> ev, n |-> n, e |-> e, args |-> args,
                                  popped |-> popped, at |-> s.counts,
                                  stack |-> IF e = 0 THEN <<>> ELSE s.envs[e].stack])]

(* this._fm.$log(line) of Environment e: the log function its constructor  *)
(* was given (sink "log"); e = 0 is LocalEnvironment.prototype, built by    *)
(* new Environment() with no log function, which writes to console.log     *)
Log(s, e, msg, bt) ==
    [s EXCEPT !.logs = Append(@, [msg |-> msg, bt |-> bt, at |-> Len(s.hist),
                                  sink |-> IF e = 0 THEN "console" ELSE "log"])]

(* handle_args on Environment e for a record info with info.params = params *)
HandleArgs(s, e, params, args) ==
    LET r == handle_args(s.envs[e].stack, params, args) IN
    [s EXCEPT !.envs[e].stack = r.stack, !.ret = r.args]

(* how often function n has run so far *)
TimesRun(s, n) == Cardinality({i \in 1..Len(s.hist) : s.hist[i].ev = "step" /\ s.hist[i].n = n})

(* how often function n has run so far on Environment e *)
TimesRunOn(s, n, e) ==
    Cardinality({i \in 1..Len(s.hist) :
                    s.hist[i].ev = "step" /\ s.hist[i].n = n /\ s.hist[i].e = e})

RECURSIVE PopValues(_, _, _)
PopValues(s, e, k) ==
    IF k = 0 THEN [s EXCEPT !.ret = <<>>]
    ELSE LET v == stack_top(s, e)
             r == PopValues(pop_stack(s, e), e, k - 1)
         IN  [r EXCEPT !.ret = <<v>> \o @]

RECURSIVE PushValues(_, _, _)
PushValues(s, e, vs) ==
    IF vs = <<>> THEN s ELSE PushValues(push_stack(s, e, Head(vs)), e, Tail(vs))

NewAct(n, e, after, args) ==
    [n |-> n, e |-> e, after |-> after, idx |-> 0, expected |-> Len(Node(n).kids),
     info |-> wrap_params(Node(n)),
     results |-> 0, send_results |-> FALSE, exception_happened |-> FALSE,
     exception |-> Null, fn_args |-> args, live |-> TRUE]

(* Control.  A JavaScript call in tail position is recorded in s.todo and  *)
(* performed by Run; the try blocks and the forEach loop that a call runs  *)
(* inside are the frames of s.frames.                                      *)

Op(op, c, n, e, err, args) == [op |-> op, c |-> c, n |-> n, e |-> e, err |-> err, args |-> args]
None == Op("none", NoFn, 0, 0, Null, <<>>)
DoCall(c, args) == Op("call", c, 0, 0, Null, args)
DoApply(n, e, after, args) == Op("apply", after, n, e, Null, args)
DoThrow(e, err, extra) == Op("throw", NoFn, 0, e, err, extra)
DoCatch(e) == Op("catch", NoFn, 0, e, Null, <<>>)
DoHandler(h, e, err, extra) == Op("handler", h, 0, e, err, extra)
DoSpawn(a, k) == Op("spawn", Fn("spawn", a, 0), k, 0, Null, <<>>)

Goto(s, t) == IF s.exn # <<>> THEN s ELSE [s EXCEPT !.todo = t]
Frame(k, e, a, i) == [k |-> k, e |-> e, a |-> a, i |-> i]
Enter(s, f) == [s EXCEPT !.frames = Append(@, f)]

(* `this` of env.$throw and env.$catch.  The Environment constructor binds  *)
(* both to the object it builds.  LocalEnvironment.prototype is such an    *)
(* object (new Environment()), so a LocalEnvironment finds on its          *)
(* prototype methods that are bound already, and binding a bound function  *)
(* again does not change its this: on a LocalEnvironment both act on the   *)
(* prototype object (0 here), whose FluxMeta nothing pushes on: its         *)
(* exception stack and call graph stay empty, its exception_after          *)
(* undefined.                                                              *)
bound_this(s, e) == IF s.envs[e].parent # 0 THEN 0 ELSE e

(* Environment.prototype.$throw with no handler on the exception stack:    *)
(* the second line is 'Backtrace: ' + err.backtrace; reading a property of *)
(* undefined or null fails, and a number or boolean does not keep the      *)
(* property that $throw has set                                            *)
uncaught(s, e, err, bt) ==
    LET s1 == Log(s, e, "Uncaught exception -- processing chain terminated", <<>>) IN
    IF err = Undef \/ err = Null THEN Raise(s1, TypeError)
    ELSE IF err < ErrBase THEN Log(s1, e, "Backtrace: undefined", <<>>)
    ELSE Log(s1, e, "Backtrace: ", bt)

(* Environment.prototype.$throw: it pops the handler, then sets            *)
(* err.backtrace, which fails with a TypeError when err is undefined or    *)
(* null, and only then looks at the handler it popped                      *)
Throw(s, env, err, extra) ==
    LET e == bound_this(s, env)
        h == IF e = 0 THEN NoFn ELSE exception_top(s, e)
        s1 == IF e = 0 THEN s ELSE pop_exception_handler(s, e)
    IN  IF err = Undef \/ err = Null THEN Raise(s1, TypeError)
        ELSE IF h = NoFn
        THEN uncaught(s1, e, err, IF e = 0 THEN <<>> ELSE get_back_trace(s1, e))
        ELSE Goto(push_call(s1, e, "env.$throw"), DoHandler(h, e, err, extra))

(* Environment.prototype.$catch *)
Catch(s, env) ==
    LET e == bound_this(s, env)
        after == IF e = 0 THEN NoFn ELSE s.envs[e].exafter
    IN
    IF after = NoFn
    THEN Log(Log(s, e, "Caught exception, but no after() exists -- processing chain terminated", <<>>),
             e, "Backtrace: ", IF e = 0 THEN <<>> ELSE get_back_trace(s, e))
    ELSE LET s1 == push_call(s, e, "env.$catch")
             nm == fname(FnName(after), "")
             s2 == IF s1.exn # <<>> \/ hide_function(nm) THEN s1 ELSE push_call(s1, e, nm)
         IN  Goto(s2, DoCall(after, <<>>))

(* The functions on the exception stack: ChainBase.prototype.exception_handler *)
(* bound to the composition of activation h.a (which calls the composition's   *)
(* handler: it catches, re-throws or does neither), and ParallelChain's        *)
(* __inner_handler.                                                            *)
(* exception_handler: the arguments this.exception is applied to, after env *)
handler_params(err, extra) == <<err>> \o extra

(* exception_handler of a composition without a handler *)
unhandled(s, e, err, extra) == Goto(pop_ctx(s, e), DoThrow(e, err, extra))

inner_handler(act, err) == [act EXCEPT !.exception_happened = TRUE, !.exception = err]

(* acts[a].live: the composition of activation a was entered and has       *)
(* neither completed (its after glue ran) nor been unwound (an exception   *)
(* reached its exception_handler)                                          *)
CallHandler(s, h, e, err, extra) ==
    IF h.k = "inner_handler"
    THEN Goto([s EXCEPT !.acts[h.a] = inner_handler(@, err)], DoCatch(e))
    ELSE LET n == s.acts[h.a].n
             v == Node(n)
             s0 == [s EXCEPT !.acts[h.a].live = FALSE]
         IN  IF v.exc # "none"
             THEN LET s1 == push_call(s0, e, "handler")
                      s2 == pop_ctx(s1, e)
                      s3 == Record(s2, "handler", n, e, handler_params(err, extra), <<>>)
                  IN  IF s1.exn # <<>> THEN s1
                      ELSE IF v.exc = "catch" THEN Goto(s3, DoCatch(e))
                      ELSE IF v.exc = "rethrow" THEN Goto(s3, DoThrow(e, err, <<>>))
                      ELSE s3
             ELSE unhandled(s0, e, err, extra)

(* Environment.prototype.$check: what the callback env.$check(after) does  *)
(* when it is called with args = (err, rest...)                            *)
check_unless_undefined(e, after, args) ==
    LET err == IF args = <<>> THEN Undef ELSE args[1] IN
    IF err # Undef THEN DoThrow(e, err, <<>>)
    ELSE DoCall(after, IF args = <<>> THEN <<>> ELSE Tail(args))

check(e, after, args) ==
    LET err == IF args = <<>> THEN Undef ELSE args[1] IN
    IF Truthy(err) THEN DoThrow(e, err, <<>>)
    ELSE DoCall(after, IF args = <<>> THEN <<>> ELSE Tail(args))

(* The body of a user function: pops and pushes on the value stack, then   *)
(* one way of finishing.                                                   *)
UserFunction(s, n, e, after, args) ==
    LET b == Node(n).beh
        s1 == PopValues(s, e, b.pops)
        popped == s1.ret
        s2 == PushValues(s1, e, b.pushes)
        s3 == Record([s2 EXCEPT !.envs[e].stack = s.envs[e].stack], "step", n, e, args, popped)
        s4 == [s3 EXCEPT !.envs[e].stack = s2.envs[e].stack]
        yes == IF TimesRun(s, n) < b.m THEN 1 ELSE 0
        again == IF TimesRunOn(s, n, e) % (b.m + 1) < b.m THEN 1 ELSE 0
        out == CASE b.kind = "echo" -> args
                 [] b.kind = "cyclecond" -> <<again>>
                 [] b.kind = "condthrow" -> <<yes>>
                 [] b.kind \in {"succ", "defersucc"} -> [i \in 1..Len(args) |-> args[i] + 1]
                 [] b.kind = "cond" -> <<yes>> \o b.out
                 [] b.kind = "condecho" -> <<yes>> \o args
                 [] OTHER -> b.out
    IN  CASE b.kind \in {"after", "echo", "cond", "condecho", "succ", "cyclecond"} ->
                Goto(Record(s4, "cont", n, e, out, <<>>), DoCall(after, out))
          [] b.kind \in {"defer", "defersucc"} ->
                [s4 EXCEPT !.pend = @ \cup {[t |-> DoCall(after, out), n |-> n]}]
          [] b.kind = "throw" -> Raise(Record(s4, "threw", n, e, <<b.err>>, <<>>), b.err)
          [] b.kind = "condthrow" ->
                IF yes = 1 THEN Goto(Record(s4, "cont", n, e, out, <<>>), DoCall(after, out))
                ELSE Raise(Record(s4, "threw", n, e, <<b.err>>, <<>>), b.err)
          [] b.kind = "ethrow" ->
                Goto(Record(s4, "threw", n, e, <<b.err>>, <<>>), DoThrow(e, b.err, out))
          [] b.kind = "catch" -> Goto(Record(s4, "caught", n, e, <<>>, <<>>), DoCatch(e))
          [] b.kind = "check" ->
                LET t == check(e, after, b.out) IN
                IF t.op = "call" THEN Goto(Record(s4, "cont", n, e, t.args, <<>>), t)
                ELSE Goto(Record(s4, "threw", n, e, <<t.err>>, <<>>), t)
          [] b.kind = "defercheck" ->
                [s4 EXCEPT !.pend = @ \cup {[t |-> check(e, after, b.out), n |-> n]}]
          [] b.kind = "deferthrow" ->
                [s4 EXCEPT !.pend = @ \cup {[t |-> DoThrow(e, b.err, out), n |-> n]}]
          [] OTHER -> s4

(* v.fn.apply(ctx, [env, after].concat(args)) for the step n: a function   *)
(* runs; Chain, LoopChain, ParallelChain and Branch have their own apply.  *)
Apply(s, n, e, after, args) ==
    LET v == Node(n)
        a == Len(s.acts) + 1
        s0 == [s EXCEPT !.acts = Append(@, NewAct(n, e, after, args))]
        s1 == push_exception_handler(s0, e, ExceptionHandler(a), Glue(a, 1))
    IN
    IF v.type = "fn" THEN UserFunction(s, n, e, after, args)
    ELSE IF after = NoFn THEN Raise(s, TypeError)
    ELSE IF v.type = "serial"
    THEN LET s2 == push_ctx(s1, e, v.name) IN
         IF s2.exn # <<>> THEN s2 ELSE queueTick(s2, Inner(a), args)
    ELSE IF v.type = "loop"
    THEN Goto(push_ctx(s1, e, v.name), DoCall(Check(a), args))
    ELSE IF v.type = "parallel"
    THEN LET s2 == [s1 EXCEPT !.arrs = Append(@, [i \in 1..Len(v.kids) |-> Unset]),
                              !.acts[a].results = Len(s1.arrs) + 1]
             s3 == push_ctx(s2, e, v.name)
         IN  IF s3.exn # <<>> THEN s3 ELSE nextTick(s3, Fn("spawn", a, 0), <<>>)
    ELSE \* Branch
         LET s2 == IF v.cond = 0 THEN Raise(s1, TypeError) ELSE HandleArgs(s1, e, v.cp, args)
             s3 == IF s2.exn # <<>> THEN s2 ELSE push_ctx(s2, e, v.name)
             s4 == IF s3.exn # <<>> THEN s3
                   ELSE push_call(s3, e, fname(Node(v.cond).name, ""))
         IN  IF s4.exn # <<>> THEN s4 ELSE nextTick(s4, Fn("bcall", a, 0), s2.ret)

(* ParallelChain apply: the Environment whose value stack a branch's       *)
(* arguments are adapted against, of lenv = new LocalEnvironment(env, k)   *)
branch_stack_shared(lenv, env) == env

branch_stack(lenv, env) == lenv

(* ParallelChain apply: the thread id of the k-th LocalEnvironment,         *)
(* new LocalEnvironment(env, k) with forEach's zero-based index            *)
thread_id_shared(k) == 0

thread_id(k) == k - 1

(* ParallelChain apply: the body of fns.forEach for index k *)
Spawn(s, a, k) ==
    LET act == s.acts[a]
        v == Node(act.n)
    IN
    IF k > Len(v.kids) THEN s
    ELSE LET n == v.kids[k]
             lenv == Len(s.envs) + 1
             terminator == Term(a, k - 1)
             s1 == [s EXCEPT !.envs = Append(@, NewEnv(act.e, thread_id(k)))]
             s2 == HandleArgs(s1, branch_stack(lenv, act.e), v.kp[k], act.fn_args)
             s3 == push_ctx(s2, lenv, v.name)
             s4 == IF s3.exn # <<>> THEN s3 ELSE push_call(s3, lenv, fname(Node(n).name, ""))
             s5 == push_exception_handler(s4, lenv, InnerHandler(a), terminator)
         IN  IF s4.exn # <<>> THEN s4
             ELSE Goto(Enter(s5, Frame("spawn_try", lenv, a, k)),
                       DoApply(n, lenv, terminator, s2.ret))

(* make_serial_chain: the activation that holds __chain_inner.idx, the     *)
(* closure created by this very apply() call                               *)
index_cell_per_chain(s, a) ==
    CHOOSE b \in 1..Len(s.acts) :
        /\ s.acts[b].n = s.acts[a].n
        /\ \A c \in 1..Len(s.acts) : s.acts[c].n = s.acts[a].n => b <= c

index_cell(s, a) == a

(* __tail of make_serial_chain: is there another step to queue? *)
tail_more_skips_last(idx, len) == idx + 1 < len

tail_more(idx, len) == idx < len

(* the `after` that make_serial_chain was given: a Chain's glue, a         *)
(* LoopChain's check                                                       *)
serial_after_never_rechecks(v, a) == Glue(a, 0)

serial_after(v, a) == IF v.type = "loop" THEN Check(a) ELSE Glue(a, 0)

(* parallel_terminator: results[id] = value, and its test expected == 0 *)
store_result_next_free(results, id, v) ==
    LET free == {i \in 1..Len(results) : results[i] = Unset}
        first == CHOOSE i \in free : \A j \in free : i <= j
    IN  IF free = {} THEN results ELSE [results EXCEPT ![first] = v]

store_result(results, id, v) ==
    [i \in 1..(IF id > Len(results) THEN id ELSE Len(results)) |->
        IF i = id THEN v ELSE IF i <= Len(results) THEN results[i] ELSE Unset]

(* parallel_terminator: does it hand the results array to after? *)
term_always_sends(send_results) == TRUE

term_sends(send_results) == send_results

all_terminated_ignored(expected) == TRUE

all_terminated_early(expected) == expected <= 1

all_terminated(expected) == expected = 0

(* Branch apply, __chain_inner: the path the condition's result selects *)
branch_path_swapped(v, result) == IF Truthy(result) THEN v.iff ELSE v.ift

branch_path(v, result) == IF Truthy(result) THEN v.ift ELSE v.iff

(* LoopChain apply, handle: slice.call(arguments, 1) *)
handle_rest_keeps_result(args) == args

handle_rest(args) == IF args = <<>> THEN <<>> ELSE Tail(args)

(* __after_glue: does it remove the composition's exception handler? *)
glue_pops(except) == ~except

(* __after_glue: the arguments it passes to after *)
glue_params_unbound(bind, e, args) == args

glue_params_dropped(bind, e, args) == IF bind THEN <<EnvBase + e>> ELSE <<>>

glue_params(bind, e, args) == IF bind THEN <<EnvBase + e>> \o args ELSE args

(* fn.apply(null, args) for every closure the library creates *)
Call(s, c, args) ==
    LET a == c.a
        act == s.acts[a]
        v == Node(act.n)
        e == act.e
    IN
    CASE c.k = "top" -> Record(s, "after", 0, c.x, args, <<>>)
      [] c.k = "topfail" -> Raise(Record(s, "after", 0, c.x, args, <<>>), ErrBase + 9)
      [] c.k = "glue" ->
            LET params == glue_params(v.bind, e, args)
                after_name == fname(FnName(act.after), "(lambda function)")
                s1 == IF hide_function(after_name) THEN s ELSE push_call(s, e, after_name)
                s2 == IF glue_pops(c.x # 0) THEN pop_exception_handler(s1, e) ELSE s1
                s3 == pop_ctx([s2 EXCEPT !.acts[a].live = FALSE], e)
            IN  IF s1.exn # <<>> THEN s1 ELSE Goto(s3, DoCall(act.after, params))
      [] c.k = "tail" ->
            IF tail_more(s.acts[index_cell(s, a)].idx, Len(v.kids))
            THEN queueTick(s, Inner(a), args)
            ELSE queueTick(s, serial_after(v, a), args)
      [] c.k = "inner" ->
            LET i == s.acts[index_cell(s, a)].idx + 1
                s1 == [s EXCEPT !.acts[index_cell(s, a)].idx = i]
            IN  IF i > Len(v.kids) THEN Raise(s1, TypeError)
                ELSE LET n == v.kids[i]
                         s2 == HandleArgs(s1, e, v.kp[i], args)
                         s3 == Enter(s2, Frame("try", e, a, 0))
                         s4 == push_call(s3, e, fname(Node(n).name, ""))
                     IN  Goto(s4, DoApply(n, e, TailFn(a), s2.ret))
      [] c.k = "handle" ->
            LET result == IF args = <<>> THEN Undef ELSE args[1]
                rest == handle_rest(args)
            IN  IF Truthy(result)
                THEN LET s1 == [s EXCEPT !.acts[index_cell(s, a)].idx = 0]
                         s2 == HandleArgs(s1, e, act.info, rest)
                     IN  queueTick(s2, Inner(a), s2.ret)
                ELSE queueTick(s, Glue(a, 0), rest)
      [] c.k = "check" ->
            IF v.cond = 0 THEN Raise(s, TypeError)
            ELSE LET s1 == HandleArgs(s, e, v.cp, args)
                     \* helpers.fname(that.cond, '(lambda condition)') reads the name
                     \* of the mkfn record that wrap built, which is null
                     s2 == push_call(s1, e, fname("", "(lambda condition)"))
                 IN  Goto(s2, DoApply(v.cond, e, Handle(a), s1.ret))
      [] c.k = "term" ->
            LET id == c.x + 1
                arr == act.results
                s1 == IF Len(args) = 0 THEN s
                      ELSE IF Len(args) = 1
                      THEN [s EXCEPT !.arrs[arr] = store_result(@, id, args[1]),
                                     !.acts[a].send_results = TRUE]
                      ELSE [s EXCEPT !.arrs = Append([@ EXCEPT ![arr] = store_result(@, id, ArrBase + Len(s.arrs) + 1)],
                                                     args),
                                     !.acts[a].send_results = TRUE]
                s2 == [s1 EXCEPT !.acts[a].expected = @ - 1]
                now == s2.acts[a]
            IN  IF ~all_terminated(now.expected) THEN s2
                ELSE IF now.exception_happened THEN Goto(s2, DoThrow(e, now.exception, <<>>))
                ELSE IF term_sends(now.send_results) THEN nextTick(s2, Fn("send", a, 0), <<>>)
                ELSE nextTick(s2, Glue(a, 0), <<>>)
      [] c.k = "send" -> Goto(s, DoCall(Glue(a, 0), <<ArrBase + act.results>>))
      [] c.k = "spawn" -> Goto(s, DoSpawn(a, 1))
      [] c.k = "bcond" ->
            LET result == IF args = <<>> THEN Undef ELSE args[1]
                rest == IF args = <<>> THEN <<>> ELSE Tail(args)
            IN  nextTick(s, Fn("bpath", a, IF Truthy(result) THEN 1 ELSE 0), rest)
      [] c.k = "bcall" ->
            Goto(Enter(s, Frame("try", e, a, 0)), DoApply(v.cond, e, Fn("bcond", a, 0), args))
      [] c.k = "bpath" ->
            LET n == branch_path(v, c.x)
                s0 == Enter(s, Frame("try", e, a, 0))
                s1 == IF n = 0 THEN Raise(s0, TypeError)
                      ELSE HandleArgs(s0, e, IF Truthy(c.x) THEN v.tp ELSE v.fp, args)
                s2 == IF s1.exn # <<>> THEN s1 ELSE push_call(s1, e, fname(Node(n).name, ""))
            IN  Goto(s2, DoApply(n, e, Glue(a, 0), s1.ret))
      [] OTHER -> Raise(s, TypeError)

(* catch (err) { env.$throw(err); } of the try block f, left with err in   *)
(* flight                                                                  *)
catch_clause(out, f, err) == [out EXCEPT !.exn = <<>>, !.todo = DoThrow(f.e, err, <<>>)]

(* One transfer of control: a native exception in flight leaves the        *)
(* innermost try block through its catch clause; a pending call is made;   *)
(* a call that returned goes back to the frame it was made from.           *)
Step(s) ==
    LET n == Len(s.frames)
        f == s.frames[n]
        out == [s EXCEPT !.frames = SubSeq(@, 1, n - 1), !.todo = None]
        t == s.todo
        go == [s EXCEPT !.todo = None]
    IN
    IF s.exn # <<>>
    THEN CASE f.k = "try" -> catch_clause(out, f, s.exn[1])
           [] f.k = "spawn_try" ->
                 [catch_clause(out, f, s.exn[1])
                     EXCEPT !.frames = Append(@, Frame("spawn_catch", f.e, f.a, f.i))]
           [] OTHER -> out
    ELSE IF t.op = "none"
    THEN IF f.k = "try" THEN out ELSE [out EXCEPT !.todo = DoSpawn(f.a, f.i + 1)]
    ELSE CASE t.op = "call" -> Call(go, t.c, t.args)
           [] t.op = "apply" -> Apply(go, t.n, t.e, t.c, t.args)
           [] t.op = "throw" -> Throw(go, t.e, t.err, t.args)
           [] t.op = "catch" -> Catch(go, t.e)
           [] t.op = "handler" -> CallHandler(go, t.c, t.e, t.err, t.args)
           [] OTHER -> Spawn(go, t.c.a, t.n)

RECURSIVE Run(_)
Run(s) ==
    IF s.frames = <<>> /\ (s.exn # <<>> \/ s.todo.op = "none") THEN s ELSE Run(Step(s))

-----------------------------------------------------------------------------
(* The state machine: the caller invokes the root composition once, then   *)
(* the host runs its callbacks one at a time.                              *)

Heap ==
    [envs |-> envs, ctxs |-> ctxs, acts |-> acts, arrs |-> arrs, tq |-> tq,
     tickSet |-> tickSet, nt |-> nt, pend |-> pend, hist |-> hist, logs |-> logs,
     counts |-> counts, sched |-> sched, exn |-> <<>>, ret |-> <<>>, todo |-> None, frames |-> <<>>]

Zero == [c |-> NoFn, args |-> <<>>]

(* everything but the scheduler's own variables, from a heap r *)
Commit(r) ==
    /\ envs' = r.envs
    /\ ctxs' = r.ctxs
    /\ acts' = r.acts
    /\ arrs' = r.arrs
    /\ pend' = r.pend
    /\ hist' = r.hist
    /\ logs' = r.logs
    /\ counts' = r.counts
    /\ sched' = r.sched
    /\ crashed' = (crashed \/ r.exn # <<>>)

Tick(s, turn, drain, entry) ==
    [s EXCEPT !.counts = [turns |-> @.turns + turn, drains |-> @.drains + drain,
                          entries |-> @.entries + entry]]

(* runTick: queue[idx] *)
next_entry_newest(q, idx) == q[Len(q)]

next_entry(q, idx) == q[idx + 1]

(* env.$push(v) for the values of prog.stack, then                         *)
(* chain.call(null, env, after, args...) by the caller, to its return      *)
Invoke ==
    /\ pc = "start"
    /\ ~crashed
    /\ LET r == Run(Goto(PushValues(Heap, 1, prog.stack),
                         DoApply(prog.root, 1, prog.after, prog.args)))
           r1 == Record(r, "returned", 0, 0, <<>>, <<>>)
       IN  /\ Commit(r1)
           /\ tq' = r1.tq
           /\ tickSet' = r1.tickSet
           /\ nt' = r1.nt
    /\ pc' = "running"
    /\ UNCHANGED <<prog, tpos, ha>>

(* a structural mutation of the root chain: insert(fn, pos),        *)
(* remove(pos), push(fn), pop(), unshift(fn), shift()                      *)
Edit(op, fn, pos) == [op |-> op, fn |-> fn, pos |-> pos]
Setters == {"set_exception_handler", "set_bind_after_env"}
NoEdit == Edit("none", 0, 0)

(* Chain.prototype.insert / remove / push / pop / unshift / shift on the   *)
(* array fns                                                               *)
edit_fns(fns, d) ==
    CASE d.op = "insert" -> splice(fns, d.pos, 0, <<d.fn>>)
      [] d.op = "remove" -> splice(fns, d.pos, 1, <<>>)
      [] d.op = "push" -> Append(fns, d.fn)
      [] d.op = "pop" -> SubSeq(fns, 1, Len(fns) - 1)
      [] d.op = "unshift" -> <<d.fn>> \o fns
      [] d.op = "shift" -> SubSeq(fns, 2, Len(fns))
      [] OTHER -> fns

EditOps == {"insert", "remove", "push", "pop", "unshift", "shift"}

(* the mutation d of the composition v: LoopChain.prototype.set_cond and   *)
(* Branch.prototype.set_cond / set_true / set_false assign the field the   *)
(* record wrap(fn), whose params is params; the six methods of             *)
(* Chain.prototype change the array fns, of such records;                  *)
(* set_exception_handler(h) with a handler h that calls env.$catch() and   *)
(* set_bind_after_env(true) assign this.exception and this.bind_after_env  *)
mutate(v, d, params) ==
    CASE d.op = "set_cond" -> [v EXCEPT !.cond = d.fn, !.cp = params]
      [] d.op = "set_true" -> [v EXCEPT !.ift = d.fn, !.tp = params]
      [] d.op = "set_false" -> [v EXCEPT !.iff = d.fn, !.fp = params]
      [] d.op = "set_exception_handler" -> [v EXCEPT !.exc = "catch"]
      [] d.op = "set_bind_after_env" -> [v EXCEPT !.bind = TRUE]
      [] OTHER -> [v EXCEPT !.kids = edit_fns(@, d),
                            !.kp = edit_fns(@, [d EXCEPT !.fn = params])]

(* the caller mutates the composition prog.on, before invoking the root    *)
(* or from a host event after the call; the function it adds or sets is    *)
(* the spare node of the program.  Chain, LoopChain and ParallelChain      *)
(* share the six methods of Chain.prototype; a LoopChain has set_cond as   *)
(* well, a Branch has its three setters; all have the two of ChainBase.    *)
Mutate ==
    /\ \/ pc = "start" /\ prog.family = "mutate" /\ prog.edits < MaxEdits
       \/ pc = "running" /\ prog.family = "remutate" /\ prog.edits < MaxLateEdits
    /\ ~crashed
    /\ tpos = 0
    /\ \E op \in Setters \cup (IF prog.nodes[prog.on].type = "branch"
                              THEN {"set_cond", "set_true", "set_false"}
                              ELSE IF prog.nodes[prog.on].type = "loop"
                              THEN EditOps \cup {"set_cond"}
                              ELSE EditOps) :
       \E pos \in 0..(MaxEdits + 1) :
          LET d == Edit(op, IF op \in Setters \cup {"remove", "pop", "shift"} THEN 0
                            ELSE prog.spare,
                        IF op \in {"insert", "remove"} THEN pos ELSE 0)
              fns == prog.nodes[prog.on].kids
          IN  prog' = [prog EXCEPT !.nodes[prog.on] =
                                      mutate(@, d, IF d.fn = 0 THEN 0
                                                   ELSE wrap_params(prog.nodes[d.fn])),
                                   !.edits = @ + 1, !.was = fns, !.did = d]
    /\ UNCHANGED <<pc, envs, ctxs, acts, arrs, tq, tpos, tickSet, nt, pend, hist, logs,
                   crashed, counts, sched, ha>>

(* a second chain.call(null, env2, after2, args...) of the same root, with *)
(* a new Environment, from any host event after the first call, also one   *)
(* that follows a native failure the process survived                      *)
InvokeAgain ==
    /\ pc = "running"
    /\ prog.calls > 1
    /\ (~crashed \/ prog.survives)
    /\ tpos = 0
    /\ LET e == Len(envs) + 1
           s == Tick([Heap EXCEPT !.envs = Append(@, NewEnv(0, 0))], 1, 0, 0)
           r == Run(Goto(s, DoApply(prog.root, e, TopOf(e), prog.args)))
           r1 == Record(r, "returned", 0, e, <<>>, <<>>)
       IN  /\ Commit(r1)
           /\ tq' = r1.tq
           /\ tickSet' = r1.tickSet
           /\ nt' = r1.nt
    /\ pc' = "again"
    /\ UNCHANGED <<prog, tpos, ha>>

(* runTick's loop ends after the entry idx when it was the last one queued *)
(* and did not fail: the scheduler's log notes the end of the drain        *)
DrainDone(r, idx) ==
    IF r.exn = <<>> /\ idx = Len(r.tq)
    THEN [r EXCEPT !.sched = Append(@, [op |-> "done", c |-> NoFn, args |-> <<>>,
                                        drain |-> r.counts.drains])]
    ELSE r

(* chain-manager runTick: one iteration of its loop and, after the last    *)
(* one, the reset of next and tickSet.  A failure thrown by the entry      *)
(* leaves the loop at once: no loop is running any more (tpos = 0), and    *)
(* queue, next and tickSet stay as they were.                              *)
RunTick ==
    /\ (~crashed \/ prog.survives)
    /\ nt # <<>> /\ Head(nt).c = RunTickFn
    /\ tpos < Len(tq)
    /\ LET first == IF tpos = 0 THEN 1 ELSE 0
           entry == next_entry(tq, tpos)
           s == Tick(Heap, first, first, 1)
           s1 == [s EXCEPT !.sched = Append(@, [op |-> "run", c |-> entry.c,
                                                args |-> entry.args,
                                                drain |-> s.counts.drains])]
           r == DrainDone(Run(Goto(s1, DoCall(entry.c, entry.args))), tpos + 1)
           last == (tpos + 1 = Len(r.tq))
       IN  /\ Commit(r)
           /\ IF r.exn # <<>>
              THEN /\ tq' = r.tq /\ tpos' = 0 /\ tickSet' = r.tickSet /\ nt' = Tail(r.nt)
              ELSE IF last
              THEN /\ tq' = <<>> /\ tpos' = 0 /\ tickSet' = FALSE /\ nt' = Tail(r.nt)
              ELSE /\ tq' = [r.tq EXCEPT ![tpos + 1] = Zero]
                   /\ tpos' = tpos + 1 /\ tickSet' = r.tickSet /\ nt' = r.nt
    /\ UNCHANGED <<prog, pc, ha>>

(* a callback the library gave to process.nextTick directly *)
NextTick ==
    /\ (~crashed \/ prog.survives)
    /\ nt # <<>> /\ Head(nt).c # RunTickFn
    /\ LET r == Run(Goto(Tick([Heap EXCEPT !.nt = Tail(nt)], 1, 0, 0),
                         DoCall(Head(nt).c, Head(nt).args)))
       IN  /\ Commit(r)
           /\ tq' = r.tq
           /\ tickSet' = r.tickSet
           /\ nt' = r.nt
    /\ UNCHANGED <<prog, pc, tpos, ha>>

(* a later host event (timer, I/O) in which a step that kept its           *)
(* continuation invokes it; the nextTick queue is empty by then            *)
Complete ==
    /\ ~crashed
    /\ nt = <<>>
    /\ \E p \in pend :
         LET s == Tick([Heap EXCEPT !.pend = pend \ {p}], 1, 0, 0)
             s1 == IF p.t.op = "call" THEN Record(s, "cont", p.n, 0, p.t.args, <<>>)
                   ELSE Record(s, "threw", p.n, 0, <<p.t.err>>, <<>>)
             r == Run(Goto(s1, p.t))
         IN  /\ Commit(r)
             /\ tq' = r.tq
             /\ tickSet' = r.tickSet
             /\ nt' = r.nt
    /\ UNCHANGED <<prog, pc, tpos, ha>>

(* the heap r after an event of a process that survived a native failure:  *)
(* the failure stays on record                                             *)
CommitSurvived(r) ==
    /\ envs' = r.envs
    /\ ctxs' = r.ctxs
    /\ acts' = r.acts
    /\ arrs' = r.arrs
    /\ pend' = r.pend
    /\ hist' = r.hist
    /\ logs' = r.logs
    /\ counts' = r.counts
    /\ sched' = r.sched
    /\ tq' = r.tq
    /\ tickSet' = r.tickSet
    /\ nt' = r.nt

(* a later host event in a process that survived a native failure (it has  *)
(* an uncaughtException listener): a step that kept its continuation       *)
(* invokes it                                                              *)
Survive ==
    /\ crashed
    /\ prog.survives
    /\ nt = <<>>
    /\ \E p \in pend :
         LET s == Tick([Heap EXCEPT !.pend = pend \ {p}], 1, 0, 0)
             s1 == IF p.t.op = "call" THEN Record(s, "cont", p.n, 0, p.t.args, <<>>)
                   ELSE Record(s, "threw", p.n, 0, <<p.t.err>>, <<>>)
             r == Run(Goto(s1, p.t))
         IN  CommitSurvived(r)
    /\ UNCHANGED <<prog, pc, tpos, crashed, ha>>

-----------------------------------------------------------------------------
(* The programs the caller builds.  A behaviour is the body of a user      *)
(* function: it pops `pops` values and pushes `pushes`, then, by kind:     *)
(*   after   calls its continuation with out                               *)
(*   echo    calls its continuation with the arguments it received         *)
(*   cond    calls its continuation with true (its first m runs) or false, *)
(*           followed by out; condecho follows it by its own arguments     *)
(*   cyclecond  calls its continuation with true m times, then with false  *)
(*           once, and so on, counting its runs on each Environment        *)
(*   condthrow  calls its continuation with true (its first m runs), then  *)
(*           raises err natively                                           *)
(*   succ    calls its continuation with its arguments, each plus one      *)
(*   defer   keeps its continuation and calls it with out from a later     *)
(*           host event; defersucc does so with its arguments plus one     *)
(*   throw   raises err natively;  ethrow calls env.$throw(err, out...);   *)
(*           deferthrow calls env.$throw(err, out...) from a later event   *)
(*   catch   calls env.$catch() and nothing else                           *)
(*   check   hands env.$check(after) to a foreign API, which calls it with *)
(*           out = (err, rest...) at once; defercheck, from a later event  *)

Beh(kind, out) ==
    [kind |-> kind, out |-> out, pops |-> 0, pushes |-> <<>>, err |-> Null, m |-> 0]

Func(params, beh) ==
    [type |-> "fn", name |-> "", params |-> params, kids |-> <<>>, cond |-> 0,
     ift |-> 0, iff |-> 0, exc |-> "none", bind |-> FALSE, beh |-> beh,
     kp |-> <<>>, cp |-> 0, tp |-> 0, fp |-> 0]

Comp(type, name, kids, cond, ift, iff) ==
    [type |-> type, name |-> name, params |-> 0, kids |-> kids, cond |-> cond,
     ift |-> ift, iff |-> iff, exc |-> "none", bind |-> FALSE, beh |-> Beh("none", <<>>),
     kp |-> <<>>, cp |-> 0, tp |-> 0, fp |-> 0]

Chain(kids) == Comp("serial", "(anonymous chain)", kids, 0, 0, 0)
LoopChain(cond, kids) == Comp("loop", "(anonymous loop chain)", kids, cond, 0, 0)
ParallelChain(kids) == Comp("parallel", "(anonymous parallel chain)", kids, 0, 0, 0)
Branch(cond, t, f) == Comp("branch", "(Unnamed Branch)", <<>>, cond, t, f)

Program(family, nodes, root, args) ==
    [family |-> family, nodes |-> nodes, root |-> root, args |-> args, after |-> Top,
     calls |-> 1, edits |-> 0, was |-> <<>>, did |-> NoEdit, stack |-> <<>>,
     survives |-> FALSE, on |-> 0, spare |-> 0]

(* new Chain(f1, ..., fN): every step calls after() at once or from a      *)
(* later event                                                             *)
SerialProgram(kinds) ==
    LET n == Len(kinds) IN
    Program("serial", [i \in 1..(n + 1) |->
                          IF i <= n THEN Func(0, Beh(kinds[i], <<>>))
                          ELSE Chain([j \in 1..n |-> j])], n + 1, <<>>)

SerialPrograms ==
    {SerialProgram(kinds) : kinds \in UNION {[1..k -> {"after", "defer"}] : k \in 1..MaxSteps}}

(* new LoopChain(cond, body...): cond yields true m times, then false *)
LoopProgram(m, kinds) ==
    LET n == Len(kinds) IN
    Program("loop", [i \in 1..(n + 2) |->
                        IF i = 1 THEN Func(0, [Beh("cond", <<>>) EXCEPT !.m = m])
                        ELSE IF i <= n + 1 THEN Func(0, Beh(kinds[i - 1], <<>>))
                        ELSE LoopChain(1, [j \in 1..n |-> j + 1])], n + 2, <<>>)

LoopPrograms ==
    {LoopProgram(m, kinds) : m \in 0..MaxIter, kinds \in [1..1 -> {"after", "defer"}] \cup
                                                         [1..2 -> {"after", "defer"}]}

(* new ParallelChain(b1, ..., bN), branch i passing the value 10+i or      *)
(* failing with the error ErrBase+i, now or from a later event; the chain  *)
(* has the handler exc                                                     *)
BranchKinds == {"after", "defer", "throw", "deferthrow"}

ParallelBranch(i, kind) ==
    Func(0, [Beh(kind, IF kind \in {"after", "defer"} THEN <<10 + i>> ELSE <<>>)
                EXCEPT !.err = ErrBase + i])

ParallelProgram(kinds, exc) ==
    LET n == Len(kinds) IN
    Program("parallel", [i \in 1..(n + 1) |->
                            IF i <= n THEN ParallelBranch(i, kinds[i])
                            ELSE [ParallelChain([j \in 1..n |-> j]) EXCEPT !.exc = exc]],
            n + 1, <<>>)

(* new Chain(new ParallelChain(b1, ..., bN), observer), the outer chain    *)
(* with the handler exc                                                    *)
JoinProgram(kinds, exc) ==
    LET n == Len(kinds) IN
    Program("join", [i \in 1..(n + 3) |->
                        IF i <= n THEN ParallelBranch(i, kinds[i])
                        ELSE IF i = n + 1 THEN ParallelChain([j \in 1..n |-> j])
                        ELSE IF i = n + 2 THEN Func(1, Beh("after", <<>>))
                        ELSE [Chain(<<n + 1, n + 2>>) EXCEPT !.exc = exc]],
            n + 3, <<>>)

BranchKindLists == UNION {[1..k -> BranchKinds] : k \in 1..MaxBranches}

ParallelPrograms ==
    {ParallelProgram(kinds, exc) : kinds \in BranchKindLists, exc \in {"none", "catch", "swallow"}}
    \cup {JoinProgram(kinds, exc) : kinds \in BranchKindLists, exc \in {"none", "catch"}}

(* new Branch(cond, t, f) called with no extra argument: cond yields       *)
(* result followed by pass; the paths take arity parameters                *)
BranchProgram(result, pass, arity, kind) ==
    Program("branch", << Func(0, Beh("after", <<result>> \o pass)),
                         Func(arity, Beh(kind, <<>>)),
                         Func(arity, Beh(kind, <<>>)),
                         Branch(1, 2, 3) >>, 4, <<>>)

BranchPrograms ==
    {BranchProgram(result, pass, arity, kind) :
        result \in {0, 1}, pass \in {<<>>, <<7>>, <<7, 8>>}, arity \in 0..2,
        kind \in {"after", "defer"}}

(* new Chain(f1, f2, f3): f1 pushes the values pushes and calls            *)
(* after(out...); f2 declares a parameters, pops p values and calls        *)
(* after(); f3 declares b parameters                                       *)
ArgsProgram(out, pushes, a, p, b) ==
    Program("args", << Func(0, [Beh("after", out) EXCEPT !.pushes = pushes]),
                       Func(a, [Beh("after", <<>>) EXCEPT !.pops = p]),
                       Func(b, Beh("after", <<>>)),
                       Chain(<<1, 2, 3>>) >>, 4, <<>>)

Counting(k) == [i \in 1..k |-> i]

ArgsPrograms ==
    {ArgsProgram(Counting(o), Counting(u), a, p, b) :
        o \in 0..MaxArgs, u \in 0..(MaxArgs - 1), a \in 0..(MaxArgs - 1),
        p \in 0..(MaxArgs - 1), b \in 0..(MaxArgs - 1)}

(* new Chain(f1, new Chain(g1, g2), f3) called with the extra arguments    *)
(* args: f1 (a parameters) calls after(out...), g1 (b parameters) passes   *)
(* on what it received, g2 calls after(res...), f3 (c parameters) passes   *)
(* on what it received                                                     *)
PassProgram(args, a, out, b, res, c) ==
    Program("pass", << Func(a, Beh("after", out)),
                       Func(b, Beh("echo", <<>>)),
                       Func(0, Beh("after", res)),
                       Chain(<<2, 3>>),
                       Func(c, Beh("echo", <<>>)),
                       Chain(<<1, 4, 5>>) >>, 6, args)

Offset(base, k) == [i \in 1..k |-> base + i]

PassPrograms ==
    {PassProgram(Offset(40, n), a, Offset(20, o), b, Offset(30, r), c) :
        n \in 0..(MaxArgs - 1), a \in 0..1, o \in 0..(MaxArgs - 1), b \in 0..(MaxArgs - 1),
        r \in 0..(MaxArgs - 1), c \in 0..(MaxArgs - 1)}

(* new LoopChain(cond, body...) called with the argument start: cond (one  *)
(* parameter) yields true m times, then false, followed by the value it    *)
(* received; every body step (one parameter) passes on its argument plus   *)
(* one                                                                     *)
ThreadProgram(m, kinds, start) ==
    LET n == Len(kinds) IN
    Program("thread", [i \in 1..(n + 2) |->
                          IF i = 1 THEN Func(1, [Beh("condecho", <<>>) EXCEPT !.m = m])
                          ELSE IF i <= n + 1 THEN Func(1, Beh(kinds[i - 1], <<>>))
                          ELSE LoopChain(1, [j \in 1..n |-> j + 1])], n + 2, <<start>>)

ThreadPrograms ==
    {ThreadProgram(m, kinds, start) :
        m \in 0..MaxIter, start \in {0, 5},
        kinds \in [1..1 -> {"succ", "defersucc"}] \cup [1..2 -> {"succ", "defersucc"}]}

(* Chains nested depth deep.  The innermost is Chain(f1, f2, f3): f1       *)
(* pushes 77 and calls after(); f2 fails with the error ErrBase + 1 in the *)
(* way kind (or calls after() when kind is "after"), passing extra to      *)
(* $throw; f3 calls after().  Level k > 1 is Chain(level k - 1, g_k) with  *)
(* g_k calling after().  Level k has the handler excs[k]; every level      *)
(* binds the Environment to its after when bind is set.                    *)
ExcLevel(k) == 2 * k + 2
ExcTail(k) == 2 * k + 1

ExcProgram(kind, extra, excs, bind) ==
    LET d == Len(excs) IN
    Program("exc",
            [i \in 1..(2 * d + 2) |->
                IF i = 1 THEN Func(0, [Beh("after", <<>>) EXCEPT !.pushes = <<77>>])
                ELSE IF i = 2 THEN Func(0, [Beh(kind, extra) EXCEPT !.err = ErrBase + 1])
                ELSE IF i = 3 THEN Func(0, Beh("after", <<>>))
                ELSE IF i = 4 THEN [Chain(<<1, 2, 3>>) EXCEPT !.exc = excs[1], !.bind = bind]
                ELSE IF i % 2 = 1 THEN Func(0, Beh("after", <<>>))
                ELSE [Chain(<<i - 2, i - 1>>) EXCEPT !.exc = excs[(i - 2) \div 2],
                                                     !.bind = bind]],
            2 * d + 2, <<>>)

ExcKinds == {"after", "ethrow", "throw", "deferthrow"}
HandlerKinds == {"none", "catch", "rethrow", "swallow"}

ExcPrograms ==
    {ExcProgram(kind, extra, excs, bind) :
        kind \in ExcKinds, extra \in {<<>>, <<9>>},
        excs \in UNION {[1..d -> HandlerKinds] : d \in 1..MaxDepth}, bind \in BOOLEAN}

(* A step that calls env.$catch() although nothing was thrown: as the     *)
(* only step of a chain, after a step of the same chain, and after a      *)
(* nested chain that completed                                             *)
CatchPrograms ==
    { Program("catch", << Func(0, Beh("catch", <<>>)), Chain(<<1>>) >>, 2, <<>>),
      Program("catch", << Func(0, Beh("after", <<>>)), Func(0, Beh("catch", <<>>)),
                          Chain(<<1, 2>>) >>, 3, <<>>),
      Program("catch", << Func(0, Beh("after", <<>>)), Chain(<<1>>),
                          Func(0, Beh("catch", <<>>)), Chain(<<2, 3>>) >>, 4, <<>>) }

(* new Branch(cond, t, f) with the handler exc: the condition fails        *)
(* natively with ErrBase + 1 (where = "cond"), or it yields result and     *)
(* both paths fail natively with ErrBase + 2 (where = "path")              *)
BranchThrowProgram(where, result, exc) ==
    Program("bthrow",
            << IF where = "cond" THEN Func(0, [Beh("throw", <<>>) EXCEPT !.err = ErrBase + 1])
               ELSE Func(0, Beh("after", <<result>>)),
               Func(0, [Beh(IF where = "path" THEN "throw" ELSE "after", <<>>)
                           EXCEPT !.err = ErrBase + 2]),
               Func(0, [Beh(IF where = "path" THEN "throw" ELSE "after", <<>>)
                           EXCEPT !.err = ErrBase + 2]),
               [Branch(1, 2, 3) EXCEPT !.exc = exc] >>, 4, <<>>)

BranchThrowPrograms ==
    {BranchThrowProgram(where, result, exc) :
        where \in {"cond", "path"}, result \in {0, 1}, exc \in HandlerKinds \ {"rethrow"}}

(* new Chain() with no function: invoked directly with the arguments args, *)
(* as the only step of a chain, and as the step after f                    *)
EmptyProgram(shape, args, exc, bind) ==
    LET empty == [Chain(<<>>) EXCEPT !.exc = exc, !.bind = bind] IN
    Program("empty",
            CASE shape = 1 -> << empty >>
              [] shape = 2 -> << empty, Chain(<<1>>) >>
              [] shape = 3 -> << Func(0, Beh("after", <<>>)), empty, Chain(<<1, 2>>) >>,
            shape, args)

EmptyPrograms ==
    {EmptyProgram(shape, args, exc, bind) :
        shape \in 1..3, args \in {<<>>, <<5>>}, exc \in {"none", "catch"}, bind \in BOOLEAN}

(* chain.call(null, env) and chain.call(null, env, null): the four kinds   *)
(* of composition invoked without an after, which apply replaces by        *)
(* helpers.noop, a property the helpers module does not export             *)
NoAfter(p) == [p EXCEPT !.family = "noafter", !.after = NoFn]

NoAfterPrograms ==
    { NoAfter(SerialProgram(<<"after", "after">>)),
      NoAfter(LoopProgram(1, <<"after">>)),
      NoAfter(ParallelProgram(<<"after", "after">>, "none")),
      NoAfter(BranchProgram(1, <<>>, 0, "after")) }

(* One chain object used more than once.  The loop's condition yields true *)
(* m times and then false, again and again, counting on each Environment.  *)
CycleLoopProgram(m, kinds) ==
    LET n == Len(kinds) IN
    Program("loop", [i \in 1..(n + 2) |->
                        IF i = 1 THEN Func(0, [Beh("cyclecond", <<>>) EXCEPT !.m = m])
                        ELSE IF i <= n + 1 THEN Func(0, Beh(kinds[i - 1], <<>>))
                        ELSE LoopChain(1, [j \in 1..n |-> j + 1])], n + 2, <<>>)

ReusedChains ==
    {SerialProgram(kinds) : kinds \in [1..2 -> {"after", "defer"}]}
    \cup {CycleLoopProgram(m, kinds) : m \in 1..2, kinds \in [1..1 -> {"after", "defer"}]}

(* chain.call(null, env1, after1); chain.call(null, env2, after2) *)
Twice(p) == [p EXCEPT !.family = "twice", !.calls = 2]

(* new Chain(chain, chain) *)
Nested(p) ==
    [p EXCEPT !.family = "nested", !.nodes = Append(@, Chain(<<p.root, p.root>>)),
              !.root = Len(p.nodes) + 1]

ReusePrograms == {Twice(p) : p \in ReusedChains} \cup {Nested(p) : p \in ReusedChains}

(* new Chain(f1, f2), with a third function to add *)
MutatePrograms ==
    { [Program("mutate", << Func(0, Beh("after", <<>>)), Func(0, Beh("after", <<>>)),
                            Func(0, Beh("after", <<>>)), Chain(<<1, 2>>) >>, 4, <<>>)
          EXCEPT !.on = 4, !.spare = 3] }

(* a composition that the caller mutates after it has invoked the root:    *)
(* p with one more function g, and on the composition of p whose methods   *)
(* the caller calls.  The last three: new Chain(new Chain(a)) and          *)
(* new LoopChain(cond, b) with a and b of one parameter and g of two,      *)
(* called with arguments and a value on the stack, and new Chain(f)        *)
(* without a handler, whose f calls env.$throw                             *)
RemutatePrograms ==
    LET Remutate(p, on, g) ==
            [p EXCEPT !.family = "remutate", !.nodes = Append(@, g),
                      !.on = on, !.spare = Len(p.nodes) + 1]
        g0 == Func(0, Beh("after", <<>>))
    IN  {Remutate(SerialProgram(kinds), 3, g0) : kinds \in [1..2 -> {"after", "defer"}]}
        \cup {Remutate(LoopProgram(1, <<k>>), 3, g0) : k \in {"after", "defer"}}
        \cup {Remutate(ParallelProgram(<<"after", k>>, "none"), 3, g0) :
                  k \in {"after", "defer"}}
        \cup {Remutate(BranchProgram(result, <<>>, 0, k), 4, g0) :
                  result \in {0, 1}, k \in {"after", "defer"}}
        \cup {Remutate(Nested(SerialProgram(<<"defer", "after">>)), 3, g0)}
        \cup {Remutate([Program("", << Func(1, Beh("echo", <<>>)), Chain(<<1>>),
                                       Chain(<<2>>) >>, 3, <<5, 6, 7>>)
                           EXCEPT !.stack = <<9>>], 2, Func(2, Beh("echo", <<>>))),
              Remutate([Program("", << Func(0, [Beh("cond", <<5, 6, 7>>) EXCEPT !.m = 2]),
                                       Func(1, Beh("after", <<>>)), LoopChain(1, <<2>>) >>,
                                3, <<>>)
                           EXCEPT !.stack = <<9>>], 3, Func(2, Beh("after", <<>>))),
              Remutate(Program("", << Func(0, [Beh("ethrow", <<>>) EXCEPT !.err = ErrBase + 1]),
                                      Chain(<<1>>) >>, 2, <<>>), 2, g0)}

(* new Chain(f) and new Chain(new Chain(f)), with the handlers ie and oe:  *)
(* f throws 0, undefined or null, natively or with env.$throw, at once or  *)
(* from a later event                                                      *)
OddThrowPrograms ==
    {Program("oddthrow",
             << Func(0, [Beh(kind, <<>>) EXCEPT !.err = err]),
                [Chain(<<1>>) EXCEPT !.exc = ie] >>
             \o (IF deep THEN << [Chain(<<2>>) EXCEPT !.exc = oe] >> ELSE <<>>),
             IF deep THEN 3 ELSE 2, <<>>) :
        kind \in {"throw", "ethrow", "deferthrow"}, err \in {0, Undef, Null},
        ie \in {"none", "catch"}, oe \in {"none", "catch"}, deep \in BOOLEAN}

(* new LoopChain(cond, body) whose condition fails natively with the error *)
(* ErrBase + 1 on its first check (m = 0) or on a re-check (m > 0); the    *)
(* loop has the handler exc and is invoked directly, or it is the only     *)
(* step of a chain that has the handler exc                                *)
LoopThrowProgram(m, exc, nested) ==
    LET loop == LoopChain(1, <<2>>) IN
    Program("loopthrow",
            << Func(0, [Beh("condthrow", <<>>) EXCEPT !.m = m, !.err = ErrBase + 1]),
               Func(0, Beh("after", <<>>)) >>
            \o (IF nested THEN << loop, [Chain(<<3>>) EXCEPT !.exc = exc] >>
                ELSE << [loop EXCEPT !.exc = exc] >>),
            IF nested THEN 4 ELSE 3, <<>>)

LoopThrowPrograms ==
    {LoopThrowProgram(m, exc, nested) :
        m \in 0..1, exc \in {"none", "catch"}, nested \in BOOLEAN}

(* env.$push(1); env.$push(2); new ParallelChain(b1, b2) called with the   *)
(* arguments args: branch i declares arities[i] parameters, pops pops[i]   *)
(* values, pushes 10 + i and calls after(), b1 at once or from a later     *)
(* event                                                                   *)
StackBranch(i, arity, pops, kind) ==
    Func(arity, [Beh(kind, <<>>) EXCEPT !.pops = pops, !.pushes = <<10 + i>>])

ParallelStackProgram(args, arities, pops, kind) ==
    [Program("pstack", << StackBranch(1, arities[1], pops[1], kind),
                          StackBranch(2, arities[2], pops[2], "after"),
                          ParallelChain(<<1, 2>>) >>, 3, args)
        EXCEPT !.stack = <<1, 2>>]

ParallelStackPrograms ==
    {ParallelStackProgram(args, arities, pops, kind) :
        args \in {<<>>, <<5>>, <<5, 6>>}, arities \in [1..2 -> 0..2], pops \in [1..2 -> 0..1],
        kind \in {"after", "defer"}}

(* new ParallelChain(b1, ..., bN) called with the arguments args: every    *)
(* branch declares arity parameters; branch i calls after(), at once or    *)
(* from a later event, or fails with ErrBase + i, natively or through      *)
(* env.$throw                                                              *)
InitKinds == {"after", "defer", "throw", "ethrow"}

ParallelInitProgram(kinds, arity, args) ==
    LET n == Len(kinds) IN
    Program("pinit", [i \in 1..(n + 1) |->
                         IF i <= n
                         THEN Func(arity, [Beh(kinds[i], <<>>) EXCEPT !.err = ErrBase + i])
                         ELSE ParallelChain([j \in 1..n |-> j])], n + 1, args)

ParallelInitPrograms ==
    {ParallelInitProgram(kinds, arity, args) :
        kinds \in UNION {[1..k -> InitKinds] : k \in 1..MaxBranches},
        arity \in 0..1, args \in {<<>>, <<5>>}}

(* new ParallelChain(b1, ..., bN): branch i calls after(outs[i]...), with   *)
(* no, one or two values, at once or from a later event                    *)
ResultOuts(i) == {<<>>, <<10 + i>>, <<10 + i, 20 + i>>}

ParallelResultProgram(outs, kind) ==
    LET n == Len(outs) IN
    Program("presult", [i \in 1..(n + 1) |->
                           IF i <= n THEN Func(0, Beh(kind, outs[i]))
                           ELSE ParallelChain([j \in 1..n |-> j])], n + 1, <<>>)

ParallelResultPrograms ==
    {ParallelResultProgram(outs, kind) :
        outs \in UNION {{o \in [1..n -> UNION {ResultOuts(i) : i \in 1..n}] :
                            \A i \in 1..n : o[i] \in ResultOuts(i)} : n \in 1..MaxBranches},
        kind \in {"after", "defer"}}

(* new Chain(f1, new ParallelChain(b1, b2)): f1 calls after(out...), the    *)
(* branches declare arities[1] and arities[2] parameters                   *)
ParallelNestedProgram(out, arities) ==
    Program("pnest", << Func(0, Beh("after", out)),
                        Func(arities[1], Beh("after", <<>>)),
                        Func(arities[2], Beh("after", <<>>)),
                        ParallelChain(<<2, 3>>),
                        Chain(<<1, 4>>) >>, 5, <<>>)

ParallelNestedPrograms ==
    {ParallelNestedProgram(Offset(4, o), arities) :
        o \in 0..(MaxArgs - 1), arities \in [1..2 -> 0..(MaxArgs - 1)]}

(* outer = new Chain(inner, last) with inner = new Chain(a1, ..., an) whose *)
(* steps call after(), and last either the function boom, which fails with *)
(* ErrBase + 1 in the way kind, or second = new Chain(boom); the chains    *)
(* and functions are named, and no chain has a handler                     *)
Named(node, name) == [node EXCEPT !.name = name]

TraceProgram(n, kind, wrapped) ==
    Program("trace",
            [i \in 1..n |-> Named(Func(0, Beh("after", <<>>)), IF i = 1 THEN "a1" ELSE "a2")]
            \o << Named(Chain([j \in 1..n |-> j]), "inner"),
                  Named(Func(0, [Beh(kind, <<>>) EXCEPT !.err = ErrBase + 1]), "boom") >>
            \o (IF wrapped
                THEN << Named(Chain(<<n + 2>>), "second"), Named(Chain(<<n + 1, n + 3>>), "outer") >>
                ELSE << Named(Chain(<<n + 1, n + 2>>), "outer") >>),
            IF wrapped THEN n + 4 ELSE n + 3, <<>>)

TracePrograms ==
    {TraceProgram(n, kind, wrapped) :
        n \in 1..2, kind \in {"throw", "ethrow"}, wrapped \in BOOLEAN}

(* new Chain(f) with the handler exc: f hands env.$check(after) to a       *)
(* foreign API, which calls it with cbargs                                 *)
CheckArgs ==
    {<<>>, <<0>>, <<0, 7>>, <<0, 7, 8>>, <<Undef, 7>>, <<Null, 7>>, <<ErrBase + 1>>,
     <<ErrBase + 1, 7>>, <<5, 7, 8>>}

CheckPrograms ==
    {Program("check", << Func(0, Beh(kind, cbargs)), [Chain(<<1>>) EXCEPT !.exc = exc] >>,
             2, <<>>) :
        kind \in {"check", "defercheck"}, cbargs \in CheckArgs, exc \in {"none", "catch"}}

(* A tree of all four kinds of composition:                                *)
(*   new Chain(new LoopChain(cond, new ParallelChain(b, branch)), g)       *)
(* with branch = new Branch(c, t, f).  cond yields true m times; b calls   *)
(* after(), at once or later, or fails natively; c yields result; t calls  *)
(* after() or env.$throw; the Branch, the Parallel Chain and the Chain     *)
(* have the handlers excs[1], excs[2], excs[3].                            *)
TreeProgram(m, kb, result, kt, excs) ==
    Program("tree",
            << Func(0, [Beh("cond", <<>>) EXCEPT !.m = m]),
               Func(0, [Beh(kb, <<>>) EXCEPT !.err = ErrBase + 1]),
               Func(0, Beh("after", <<result>>)),
               Func(0, [Beh(kt, <<>>) EXCEPT !.err = ErrBase + 2]),
               Func(0, Beh("after", <<>>)),
               [Branch(3, 4, 5) EXCEPT !.exc = excs[1]],
               [ParallelChain(<<2, 6>>) EXCEPT !.exc = excs[2]],
               LoopChain(1, <<7>>),
               Func(0, Beh("after", <<>>)),
               [Chain(<<8, 9>>) EXCEPT !.exc = excs[3]] >>, 10, <<>>)

TreePrograms ==
    {TreeProgram(m, kb, result, kt, excs) :
        m \in 1..2, kb \in {"after", "defer", "throw"}, result \in {0, 1},
        kt \in {"after", "ethrow"}, excs \in [1..3 -> {"none", "catch", "rethrow"}]}

(* new ParallelChain() with no branch (as the parallel patterns build for  *)
(* an empty collection): invoked directly with the arguments args, or as   *)
(* the first step of a chain whose second step is g                        *)
EmptyParallelPrograms ==
    {IF nested
     THEN Program("pempty", << ParallelChain(<<>>), Func(0, Beh("after", <<>>)),
                               Chain(<<1, 2>>) >>, 3, args)
     ELSE Program("pempty", << ParallelChain(<<>>) >>, 1, args) :
        nested \in BOOLEAN, args \in {<<>>, <<5>>}}

(* chain = new Chain(f1, ..., fn) called twice, on two Environments, in a  *)
(* process that survives native failures; the after given to the first     *)
(* call fails natively                                                     *)
DrainFailPrograms ==
    {[SerialProgram(kinds) EXCEPT !.family = "drainfail", !.calls = 2, !.after = TopFail,
                                  !.survives = TRUE] :
        kinds \in [1..1 -> {"after", "defer"}] \cup [1..2 -> {"after", "defer"}]}

(* new ParallelChain(new Chain(f, g)): f calls env.$throw or fails         *)
(* natively; the Chain has the handler ie, the Parallel Chain the handler  *)
(* pe                                                                      *)
ParallelExcPrograms ==
    {Program("pexc",
             << Func(0, [Beh(kind, <<>>) EXCEPT !.err = ErrBase + 1]),
                Func(0, Beh("after", <<>>)),
                [Chain(<<1, 2>>) EXCEPT !.exc = ie],
                [ParallelChain(<<3>>) EXCEPT !.exc = pe] >>, 4, <<>>) :
        kind \in {"ethrow", "throw"}, ie \in {"none", "catch", "rethrow"},
        pe \in {"none", "catch", "rethrow"}}

(* new Chain(new LoopChain(cond, new Chain(f)), g): the condition yields    *)
(* true m times, f calls env.$throw in every pass and the inner Chain's    *)
(* handler calls env.$catch()                                              *)
LoopCatchPrograms ==
    {Program("loopcatch",
             << Func(0, [Beh("cond", <<>>) EXCEPT !.m = m]),
                Func(0, [Beh("ethrow", <<>>) EXCEPT !.err = ErrBase + 1]),
                [Chain(<<2>>) EXCEPT !.exc = "catch"],
                LoopChain(1, <<3>>),
                Func(0, Beh("after", <<>>)),
                Chain(<<4, 5>>) >>, 6, <<>>) : m \in 1..MaxIter}

(* p = new ParallelChain(f), or new ParallelChain(new Chain(d, g)) where d  *)
(* keeps its continuation, called twice on two Environments in a process   *)
(* that survives native failures; the after given to the first call fails  *)
(* natively                                                                *)
SurviveParallelPrograms ==
    {[p EXCEPT !.calls = 2, !.after = TopFail, !.survives = TRUE] :
        p \in {Program("psurvive", << Func(0, Beh("after", <<>>)), ParallelChain(<<1>>) >>,
                       2, <<>>),
               Program("psurvive", << Func(0, Beh("defer", <<>>)), Func(0, Beh("after", <<>>)),
                                      Chain(<<1, 2>>), ParallelChain(<<3>>) >>, 4, <<>>)}}

Programs ==
    OddThrowPrograms \cup RemutatePrograms \cup SurviveParallelPrograms \cup LoopCatchPrograms \cup ParallelExcPrograms \cup DrainFailPrograms \cup EmptyParallelPrograms \cup TreePrograms \cup CheckPrograms \cup TracePrograms \cup ParallelNestedPrograms \cup ParallelResultPrograms \cup ParallelInitPrograms \cup ParallelStackPrograms \cup LoopThrowPrograms \cup MutatePrograms \cup ReusePrograms \cup NoAfterPrograms \cup EmptyPrograms \cup SerialPrograms \cup LoopPrograms \cup ParallelPrograms \cup BranchPrograms
    \cup ArgsPrograms \cup PassPrograms \cup ThreadPrograms \cup ExcPrograms
    \cup CatchPrograms \cup BranchThrowPrograms

Init ==
    /\ prog \in {[p EXCEPT !.nodes = Wrapped(@, Len(@))] : p \in Programs}
    /\ pc = "start"
    /\ envs = <<NewEnv(0, 0)>>
    /\ ctxs = <<>>
    /\ acts = <<>>
    /\ arrs = <<>>
    /\ tq = <<>>
    /\ tpos = 0
    /\ tickSet = FALSE
    /\ nt = <<>>
    /\ pend = {}
    /\ hist = <<>>
    /\ logs = <<>>
    /\ crashed = FALSE
    /\ counts = [turns |-> 0, drains |-> 0, entries |-> 0]
    /\ sched = <<>>
    /\ ha = <<>>

Next == Mutate \/ Invoke \/ InvokeAgain \/ RunTick \/ NextTick \/ Complete \/ Survive

Spec == Init /\ [][Next]_vars

-----------------------------------------------------------------------------
(* A harness for handle_args alone: on one value stack, a call that        *)
(* over-supplies a step, then a call that under-supplies the next step by  *)
(* the number of values the first call pushed.                             *)

ArgValues == {1, 2}

ArgSeqs(n) == UNION {[1..k -> ArgValues] : k \in 0..n}

ArgsInit ==
    /\ ha \in {[phase |-> "start", before |-> st, stack |-> st, params |-> 0,
                 args |-> <<>>, excess |-> <<>>, ret |-> <<>>] : st \in ArgSeqs(MaxArgs)}
    /\ prog = SerialProgram(<<"after">>)
    /\ pc = "start"
    /\ envs = <<NewEnv(0, 0)>>
    /\ ctxs = <<>>
    /\ acts = <<>>
    /\ arrs = <<>>
    /\ tq = <<>>
    /\ tpos = 0
    /\ tickSet = FALSE
    /\ nt = <<>>
    /\ pend = {}
    /\ hist = <<>>
    /\ logs = <<>>
    /\ crashed = FALSE
    /\ counts = [turns |-> 0, drains |-> 0, entries |-> 0]
    /\ sched = <<>>

(* handle_args(env, info, args) with args.length > info.params *)
OverSupply ==
    /\ ha.phase = "start"
    /\ \E args \in ArgSeqs(MaxArgs) : \E params \in 0..MaxArgs :
          /\ params < Len(args)
          /\ LET r == handle_args(ha.stack, params, args) IN
             ha' = [ha EXCEPT !.phase = "pushed", !.stack = r.stack, !.ret = r.args,
                              !.params = params, !.args = args,
                              !.excess = SubSeq(args, params + 1, Len(args))]
    /\ UNCHANGED <<prog, pc, envs, ctxs, acts, arrs, tq, tpos, tickSet, nt, pend, hist,
                   logs, crashed, counts, sched>>

(* the next handle_args(env, info, args) on the same stack, with           *)
(* info.params - args.length the number of values the first call pushed    *)
UnderSupply ==
    /\ ha.phase = "pushed"
    /\ \E args \in ArgSeqs(MaxArgs) :
          /\ Len(ha.excess) + Len(args) <= MaxArgs
          /\ LET params == Len(ha.excess) + Len(args)
                 r == handle_args(ha.stack, params, args) IN
             ha' = [ha EXCEPT !.phase = "done", !.stack = r.stack, !.ret = r.args,
                              !.params = params, !.args = args]
    /\ UNCHANGED <<prog, pc, envs, ctxs, acts, arrs, tq, tpos, tickSet, nt, pend, hist,
                   logs, crashed, counts, sched>>

(* one handle_args(env, info, args) with any arity: wrap gives a bare       *)
(* function the arity fn.length - 2, which is negative for a function that *)
(* declares fewer than two parameters                                      *)
Adapt ==
    /\ ha.phase = "start"
    /\ \E args \in ArgSeqs(MaxArgs) : \E params \in (0 - 2)..MaxArgs :
          LET r == handle_args(ha.stack, params, args) IN
          ha' = [ha EXCEPT !.phase = "adapted", !.stack = r.stack, !.ret = r.args,
                           !.params = params, !.args = args]
    /\ UNCHANGED <<prog, pc, envs, ctxs, acts, arrs, tq, tpos, tickSet, nt, pend, hist,
                   logs, crashed, counts, sched>>

ArgsNext == OverSupply \/ UnderSupply \/ Adapt

ArgsSpec == ArgsInit /\ [][ArgsNext]_vars

-----------------------------------------------------------------------------
(* Reading the history *)

Events(ev) == {i \in 1..Len(hist) : hist[i].ev = ev}
StepsOf(n) == {i \in Events("step") : hist[i].n = n}
ContsOf(n) == {i \in Events("cont") : hist[i].n = n}
Afters == Events("after")

(* nothing is left to run *)
Quiescent == pc = "running" /\ (crashed \/ (nt = <<>> /\ pend = {}))

RootKids == prog.nodes[prog.root].kids
Immediate == \A n \in 1..Len(prog.nodes) :
                prog.nodes[n].type = "fn" => prog.nodes[n].beh.kind \notin {"defer", "defersucc"}

-----------------------------------------------------------------------------
(* C1 (as amended).  A Serial Chain of N >= 1 steps that all call after()  *)
(* at once: the terminal after fires exactly once, with no arguments,      *)
(* when exactly N scheduler entries have run, one per step, step i being   *)
(* the i-th entry; all of them and the after run in one drain of the       *)
(* scheduler, that is in a single host turn.                               *)
C1_SerialAfterOnce ==
    (prog.family = "serial" /\ Immediate) =>
        LET N == Len(RootKids) IN
        /\ Cardinality(Afters) <= 1
        /\ \A i \in Afters :
              /\ hist[i].args = <<>>
              /\ hist[i].at.entries = N + 1
              /\ hist[i].at.drains = 1
              /\ hist[i].at.turns = 1
              /\ \A k \in 1..N : \E j \in StepsOf(RootKids[k]) :
                                    j < i /\ hist[j].at.entries = k
        /\ Quiescent => Cardinality(Afters) = 1

C1_Witness ==
    /\ prog.family = "serial" /\ Immediate
    /\ Len(RootKids) >= 2
    /\ Cardinality(Afters) = 1
    /\ Quiescent

(* C1 as stated: the after fires in the N-th scheduling turn *)
C1_AfterNTurns ==
    (prog.family = "serial" /\ Immediate) =>
        \A i \in Afters : hist[i].at.turns = Len(RootKids)

(* C2.  In one invocation of a Serial Chain the steps run in list order,   *)
(* each at most once; step i+1 does not start before step i has called its *)
(* continuation, and the terminal after does not fire before the last step *)
(* has called its continuation.                                            *)
C2_SerialOrder ==
    prog.family = "serial" =>
        LET N == Len(RootKids) IN
        /\ \A k \in 1..N : Cardinality(StepsOf(RootKids[k])) <= 1
        /\ \A i, j \in Events("step") : i < j => hist[i].n < hist[j].n
        /\ \A k \in 2..N : \A j \in StepsOf(RootKids[k]) :
              \E i \in ContsOf(RootKids[k - 1]) : i < j
        /\ \A j \in Afters : \E i \in ContsOf(RootKids[N]) : i < j

C2_Witness ==
    /\ prog.family = "serial" /\ ~Immediate
    /\ Len(RootKids) >= 3
    /\ Afters # {}
    /\ \A k \in 1..Len(RootKids) : StepsOf(RootKids[k]) # {}

-----------------------------------------------------------------------------
(* C3 as stated.  For every composition kind the caller's invoke() returns *)
(* before any step callable of the composition runs, the condition of a    *)
(* Loop Chain or of a Branch included: no step runs before the call        *)
(* returns.                                                                *)
C3_StepsDeferred ==
    \A i \in Events("step") : \E j \in Events("returned") : j < i

-----------------------------------------------------------------------------
(* the position of the step event i among the step events, from 0 *)
StepRank(i) == Cardinality({j \in Events("step") : j < i})

(* C4.  A Loop Chain whose condition yields true exactly M times and then  *)
(* false: the condition and the body steps run in the order cond, body in  *)
(* list order, cond, ...; every body step runs exactly M times and the     *)
(* condition M+1 times; the terminal after is invoked exactly once, and    *)
(* only after the (M+1)-th condition check.                                *)
C4_LoopCounts ==
    prog.family = "loop" =>
        LET M == Node(1).beh.m
            N == Len(RootKids)
        IN
        /\ \A i \in Events("step") :
              LET r == StepRank(i) % (N + 1) IN
              hist[i].n = IF r = 0 THEN Node(prog.root).cond ELSE RootKids[r]
        /\ Cardinality(StepsOf(Node(prog.root).cond)) <= M + 1
        /\ \A k \in 1..N : Cardinality(StepsOf(RootKids[k])) <= M
        /\ Cardinality(Afters) <= 1
        /\ \A i \in Afters :
              /\ Cardinality({j \in StepsOf(Node(prog.root).cond) : j < i}) = M + 1
              /\ \A k \in 1..N : Cardinality({j \in StepsOf(RootKids[k]) : j < i}) = M
        /\ Quiescent =>
              /\ Cardinality(Afters) = 1
              /\ Cardinality(Events("step")) = M * (N + 1) + 1

C4_Witness ==
    /\ prog.family = "loop" /\ ~Immediate
    /\ Node(1).beh.m >= 2
    /\ Len(RootKids) = 2
    /\ Cardinality(StepsOf(RootKids[2])) = Node(1).beh.m
    /\ Cardinality(Afters) = 1
    /\ Quiescent

-----------------------------------------------------------------------------
(* the Parallel Chain of a program of the families parallel and join *)
ParNode == IF prog.family = "join" THEN RootKids[1] ELSE prog.root
ParKids == Node(ParNode).kids
Throwers == {k \in 1..Len(ParKids) : Node(ParKids[k]).beh.kind \in {"throw", "deferthrow"}}

(* C5.  A Parallel Chain of N >= 1 branches, branch i passing the one      *)
(* value v_i to its continuation: in every order of completion the         *)
(* terminal after is invoked exactly once, with one argument, the results  *)
(* array of length N whose element i is v_i.                               *)
C5_ParallelResults ==
    (prog.family = "parallel" /\ Throwers = {}) =>
        /\ Cardinality(Afters) <= 1
        /\ \A i \in Afters :
              /\ Len(hist[i].args) = 1
              /\ hist[i].args[1] - ArrBase \in 1..Len(arrs)
              /\ arrs[hist[i].args[1] - ArrBase]
                    = [k \in 1..Len(ParKids) |-> Node(ParKids[k]).beh.out[1]]
        /\ Quiescent => Cardinality(Afters) = 1

C5_Witness ==
    /\ prog.family = "parallel" /\ Throwers = {}
    /\ Len(ParKids) = 3
    /\ Afters # {}
    /\ \E i, j \in Events("cont") : i < j /\ hist[i].n = ParKids[3] /\ hist[j].n = ParKids[1]

-----------------------------------------------------------------------------
(* branch k of the Parallel Chain terminated before the event i: it called *)
(* its continuation or it failed                                           *)
TerminatedBefore(k, i) ==
    \E j \in 1..(i - 1) : hist[j].ev \in {"cont", "threw"} /\ hist[j].n = ParKids[k]

AllTerminatedBefore(i) == \A k \in 1..Len(ParKids) : TerminatedBefore(k, i)

(* C6.  Parallel Chain join: the terminal after, a handler that is given   *)
(* the chain's exception and every step that follows the Parallel Chain in *)
(* an enclosing Serial Chain come only after every branch has run and has  *)
(* terminated.                                                             *)
C6_ParallelJoin ==
    prog.family \in {"parallel", "join"} =>
        /\ \A i \in 1..Len(hist) :
              (\/ hist[i].ev \in {"after", "handler"}
               \/ hist[i].ev = "step" /\ hist[i].n \notin {ParKids[k] : k \in 1..Len(ParKids)})
              => /\ AllTerminatedBefore(i)
                 /\ \A k \in 1..Len(ParKids) : \E j \in StepsOf(ParKids[k]) : j < i

C6_Witness ==
    /\ prog.family = "join"
    /\ Len(ParKids) = 3
    /\ Throwers = {}
    /\ \E k \in 1..3 : Node(ParKids[k]).beh.kind = "defer"
    /\ StepsOf(RootKids[2]) # {}
    /\ Afters # {}

-----------------------------------------------------------------------------
(* the nearest enclosing composition with a handler, 0 when there is none *)
HandlerNode ==
    IF Node(ParNode).exc # "none" THEN ParNode
    ELSE IF prog.family = "join" /\ Node(prog.root).exc # "none" THEN prog.root
    ELSE 0

(* the Parallel Chain's terminal after was invoked: the caller's after, or *)
(* the continuation that runs the next step of the enclosing chain         *)
ParAfterCalls == IF prog.family = "join" THEN StepsOf(RootKids[2]) ELSE Afters

(* C7 as stated.  A Parallel Chain in which at least one branch throws:    *)
(* the terminal after is never invoked, and the nearest enclosing handler  *)
(* receives a thrown value exactly once                                    *)
C7_AfterNeverInvoked ==
    (prog.family \in {"parallel", "join"} /\ Throwers # {}) =>
        /\ ParAfterCalls = {}
        /\ Cardinality(Events("handler")) <= 1
        /\ (Quiescent /\ HandlerNode # 0) => Cardinality(Events("handler")) = 1

-----------------------------------------------------------------------------
(* parts of a sequence *)
Min(a, b) == IF a < b THEN a ELSE b
FirstN(s, n) == SubSeq(s, 1, Min(n, Len(s)))
LastN(s, n) == SubSeq(s, Len(s) - Min(n, Len(s)) + 1, Len(s))
DropFirst(s, n) == SubSeq(s, Min(n, Len(s)) + 1, Len(s))
DropLast(s, n) == SubSeq(s, 1, Len(s) - Min(n, Len(s)))
Reverse(s) == [i \in 1..Len(s) |-> s[Len(s) + 1 - i]]

(* the Branch program's condition result, pass-through values and paths *)
BranchResult == Head(Node(prog.nodes[prog.root].cond).beh.out)
BranchPass == Tail(Node(prog.nodes[prog.root].cond).beh.out)
ChosenPath == IF BranchResult = 1 THEN Node(prog.root).ift ELSE Node(prog.root).iff
OtherPath == IF BranchResult = 1 THEN Node(prog.root).iff ELSE Node(prog.root).ift

(* C8.  Branch: a condition yielding true invokes only the true-path, one  *)
(* yielding false only the false-path, at most once and after the          *)
(* condition; the chosen path of arity a receives the first a pass-through *)
(* values (all of them when there are fewer, the value stack being empty)  *)
(* and the surplus is left on the value stack; the terminal after is       *)
(* invoked exactly once, after the chosen path called its continuation.    *)
C8_BranchPath ==
    prog.family = "branch" =>
        /\ StepsOf(OtherPath) = {}
        /\ Cardinality(StepsOf(ChosenPath)) <= 1
        /\ Cardinality(StepsOf(Node(prog.root).cond)) <= 1
        /\ \A i \in StepsOf(ChosenPath) :
              /\ hist[i].args = FirstN(BranchPass, Node(ChosenPath).params)
              /\ hist[i].stack = DropFirst(BranchPass, Node(ChosenPath).params)
              /\ \E j \in ContsOf(Node(prog.root).cond) : j < i
        /\ Cardinality(Afters) <= 1
        /\ \A i \in Afters : \E j \in ContsOf(ChosenPath) : j < i
        /\ Quiescent => Cardinality(Afters) = 1

C8_Witness ==
    /\ prog.family = "branch"
    /\ BranchResult = 0
    /\ BranchPass = <<7, 8>>
    /\ Node(ChosenPath).params = 1
    /\ Node(ChosenPath).beh.kind = "defer"
    /\ \E i \in StepsOf(Node(prog.root).iff) : hist[i].args = <<7>>
    /\ Afters # {}

-----------------------------------------------------------------------------
(* the program of the family args: what its first step passes and pushes,  *)
(* the arities of the second and third step, the values the second pops    *)
ArgsOut == Node(1).beh.out
ArgsPushed == Node(1).beh.pushes
ArityTwo == Node(2).params
ArityThree == Node(3).params
PopsTwo == Node(2).beh.pops

(* C9.  A step of arity a whose predecessor called after with at least a   *)
(* values receives exactly the first a, and the surplus is appended to the *)
(* value stack in order; with fewer than a values it receives, ahead of    *)
(* them, the values missing from the top of the stack.  Values left on the *)
(* stack are retrieved from the top: $pop returns the most recently pushed *)
(* value first (undefined once the stack is empty), and a later step that  *)
(* is under-supplied takes the topmost values.  after(1, 2) followed by    *)
(* two steps of arity 1 gives them 1 then 2; $push(1), $push(2) followed   *)
(* by two steps of arity 1 gives them 2 then 1.                            *)
C9_ArgsAndStack ==
    prog.family = "args" =>
        /\ \A i \in StepsOf(2) :
              /\ Len(ArgsOut) >= ArityTwo =>
                    /\ hist[i].args = FirstN(ArgsOut, ArityTwo)
                    /\ hist[i].stack = ArgsPushed \o DropFirst(ArgsOut, ArityTwo)
              /\ Len(ArgsOut) < ArityTwo =>
                    /\ hist[i].args = LastN(ArgsPushed, ArityTwo - Len(ArgsOut)) \o ArgsOut
                    /\ hist[i].stack = DropLast(ArgsPushed, ArityTwo - Len(ArgsOut))
              /\ hist[i].popped =
                    Reverse(LastN(hist[i].stack, PopsTwo))
                    \o [k \in 1..(PopsTwo - Min(PopsTwo, Len(hist[i].stack))) |-> Undef]
              /\ \A j \in StepsOf(3) :
                    /\ hist[j].args = LastN(DropLast(hist[i].stack, PopsTwo), ArityThree)
                    /\ hist[j].stack = DropLast(DropLast(hist[i].stack, PopsTwo), ArityThree)
        /\ (ArgsOut = <<1, 2>> /\ ArgsPushed = <<>> /\ ArityTwo = 1 /\ PopsTwo = 0 /\ ArityThree = 1)
              => /\ \A i \in StepsOf(2) : hist[i].args = <<1>>
                 /\ \A j \in StepsOf(3) : hist[j].args = <<2>>
        /\ (ArgsOut = <<>> /\ ArgsPushed = <<1, 2>> /\ ArityTwo = 1 /\ PopsTwo = 0 /\ ArityThree = 1)
              => /\ \A i \in StepsOf(2) : hist[i].args = <<2>>
                 /\ \A j \in StepsOf(3) : hist[j].args = <<1>>
        /\ Quiescent => StepsOf(2) # {} /\ StepsOf(3) # {} /\ Afters # {}

C9_Witness ==
    /\ prog.family = "args"
    /\ ArgsOut = <<1, 2, 3>> /\ ArgsPushed = <<1>> /\ ArityTwo = 1 /\ PopsTwo = 1 /\ ArityThree = 2
    /\ \E i \in StepsOf(2) : hist[i].args = <<1>> /\ hist[i].stack = <<1, 2, 3>>
                                /\ hist[i].popped = <<3>>
    /\ \E j \in StepsOf(3) : hist[j].args = <<1, 2>> /\ hist[j].stack = <<>>

-----------------------------------------------------------------------------
(* C10.  handle_args round trip: a call that over-supplies a step by       *)
(* k >= 1 pushes the k trailing arguments; when the next call on the same  *)
(* stack under-supplies a step by exactly k, it returns those k arguments  *)
(* in their original order ahead of its explicit arguments, and the value  *)
(* stack is again what it was before the first call.                       *)
C10_RoundTrip ==
    /\ ha.phase = "pushed" =>
          /\ ha.ret = FirstN(ha.args, ha.params)
          /\ ha.stack = ha.before \o ha.excess
    /\ ha.phase = "done" =>
          /\ ha.ret = ha.excess \o ha.args
          /\ ha.stack = ha.before

C10_Witness ==
    /\ ha.phase = "done"
    /\ Len(ha.excess) = 2
    /\ ha.excess[1] # ha.excess[2]
    /\ ha.before # <<>>
    /\ ha.args # <<>>
    /\ ha.ret = ha.excess \o ha.args

-----------------------------------------------------------------------------
(* what a step of n parameters receives, and what is left on the value     *)
(* stack, when it is called with args on the value stack st                *)
AdaptedArgs(st, n, args) ==
    IF Len(args) >= n THEN FirstN(args, n) ELSE LastN(st, n - Len(args)) \o args
AdaptedStack(st, n, args) ==
    IF Len(args) >= n THEN st \o DropFirst(args, n) ELSE DropLast(st, n - Len(args))

(* C11.  Argument transparency of a Serial Chain: the extra arguments of   *)
(* invoke() reach the first step, adapted to its arity; a chain nested as  *)
(* a step receives, adapted to the arity of its first step, what the       *)
(* previous step passed to its continuation; what the nested chain's last  *)
(* step passes to its continuation reaches the next step of the enclosing  *)
(* chain, adapted to its arity; and the terminal after receives, exactly   *)
(* once and unchanged, what the last step passed to its continuation.      *)
C11_ArgumentTransparency ==
    prog.family = "pass" =>
        /\ \A i \in StepsOf(1) :
              /\ hist[i].args = AdaptedArgs(<<>>, Node(1).params, prog.args)
              /\ hist[i].stack = AdaptedStack(<<>>, Node(1).params, prog.args)
              /\ \A j \in StepsOf(2) :
                    /\ hist[j].args = AdaptedArgs(hist[i].stack, Node(2).params, Node(1).beh.out)
                    /\ hist[j].stack = AdaptedStack(hist[i].stack, Node(2).params, Node(1).beh.out)
        /\ \A i \in StepsOf(3) : \A j \in StepsOf(5) :
              /\ hist[j].args = AdaptedArgs(hist[i].stack, Node(5).params, Node(3).beh.out)
              /\ hist[j].stack = AdaptedStack(hist[i].stack, Node(5).params, Node(3).beh.out)
        /\ Cardinality(Afters) <= 1
        /\ \A i \in Afters : \E j \in ContsOf(5) : j < i /\ hist[i].args = hist[j].args
        /\ \A j \in ContsOf(5) : \A i \in StepsOf(5) : hist[j].args = hist[i].args
        /\ Quiescent => /\ Cardinality(Afters) = 1
                        /\ \A n \in {1, 2, 3, 5} : Cardinality(StepsOf(n)) = 1

C11_Witness ==
    /\ prog.family = "pass"
    /\ prog.args = <<41, 42>> /\ Node(1).params = 1
    /\ \E i \in StepsOf(1) : hist[i].args = <<41>>
    /\ Node(1).beh.out = <<21, 22>> /\ Node(2).params = 2
    /\ \E i \in StepsOf(2) : hist[i].args = <<21, 22>>
    /\ Node(3).beh.out = <<31, 32>> /\ Node(5).params = 2
    /\ \E i \in Afters : hist[i].args = <<31, 32>>

-----------------------------------------------------------------------------
(* C12.  Loop Chain value threading: the value the condition yields after  *)
(* true is the argument of the body's first step, the value a body step    *)
(* passes to its continuation is the argument of the next body step and,   *)
(* from the last one, of the next condition check, and the value the       *)
(* condition yields after false is the argument of the terminal after:     *)
(* with body steps that add one, a loop of M iterations over N body steps  *)
(* started with v delivers v + M * N to after.                             *)
C12_LoopThreading ==
    prog.family = "thread" =>
        LET M == Node(1).beh.m
            N == Len(RootKids)
            v == prog.args[1]
        IN
        /\ \A i \in Events("step") :
              LET q == StepRank(i) \div (N + 1)
                  r == StepRank(i) % (N + 1)
              IN  /\ hist[i].n = IF r = 0 THEN 1 ELSE RootKids[r]
                  /\ hist[i].args = << v + q * N + (IF r = 0 THEN 0 ELSE r - 1) >>
                  /\ hist[i].stack = <<>>
        /\ Cardinality(Afters) <= 1
        /\ \A i \in Afters : hist[i].args = << v + M * N >>
        /\ Quiescent => Cardinality(Afters) = 1

C12_Witness ==
    /\ prog.family = "thread" /\ ~Immediate
    /\ Node(1).beh.m = 3 /\ Len(RootKids) = 2 /\ prog.args = <<5>>
    /\ \E i \in Afters : hist[i].args = <<11>>

-----------------------------------------------------------------------------
(* the programs of the family exc *)
ExcDepth == (Len(prog.nodes) - 2) \div 2
ThrowKind == Node(2).beh.kind
ThrownErr == Node(2).beh.err
ThrownExtra == IF ThrowKind = "throw" THEN <<>> ELSE Node(2).beh.out
HandlersAt(n) == {i \in Events("handler") : hist[i].n = n}
BoundArgs(n) == IF Node(n).bind THEN <<EnvBase + 1>> ELSE <<>>

(* C13.  A step of the chain C calls $throw(err, extra...) and C has a     *)
(* handler: the handler is invoked exactly once, with the Environment, err *)
(* itself and the extra values.  If the handler calls $catch, the          *)
(* remaining step of C never runs and the after given to C is invoked      *)
(* exactly once, after the handler, with no argument but the Environment   *)
(* when C binds it (for a nested C that after runs the next step of the    *)
(* enclosing chain, which finds the Environment argument on the value      *)
(* stack).                                                                 *)
C13_OnEnvironment ==
    (prog.family = "exc" /\ ThrowKind \in {"ethrow", "deferthrow"} /\ Node(4).exc # "none") =>
        /\ Cardinality(HandlersAt(4)) <= 1
        /\ \A i \in HandlersAt(4) :
              /\ hist[i].e = 1
              /\ hist[i].args = <<ThrownErr>> \o ThrownExtra
              /\ \E j \in Events("threw") : j < i
        /\ Quiescent => Cardinality(HandlersAt(4)) = 1
        /\ Node(4).exc = "catch" =>
              /\ StepsOf(3) = {}
              /\ IF ExcDepth = 1
                 THEN /\ Cardinality(Afters) <= 1
                      /\ \A i \in Afters : /\ hist[i].args = BoundArgs(4)
                                           /\ \E j \in HandlersAt(4) : j < i
                      /\ Quiescent => Cardinality(Afters) = 1
                 ELSE /\ Cardinality(StepsOf(5)) <= 1
                      /\ \A i \in StepsOf(5) : /\ hist[i].args = <<>>
                                               /\ hist[i].stack = <<77>> \o BoundArgs(4)
                                               /\ \E j \in HandlersAt(4) : j < i
                      /\ Quiescent => Cardinality(StepsOf(5)) = 1

(* C13 as stated.  The same for every composition C, a Chain that runs as  *)
(* a branch of a Parallel Chain included: a step of C calls $throw and C   *)
(* has a handler, so the handler is invoked exactly once.                  *)
C13_HandlerAndCatch ==
    /\ C13_OnEnvironment
    /\ (prog.family = "pexc" /\ Node(1).beh.kind = "ethrow" /\ Node(3).exc # "none") =>
          /\ Cardinality(HandlersAt(3)) <= 1
          /\ Quiescent => Cardinality(HandlersAt(3)) = 1

-----------------------------------------------------------------------------
(* the innermost level of the exc program that has a handler, 0 if none *)
Levels == 1..ExcDepth
HandlerLevels == {k \in Levels : Node(ExcLevel(k)).exc # "none"}
FirstHandlerLevel ==
    IF HandlerLevels = {} THEN 0
    ELSE CHOOSE k \in HandlerLevels : \A j \in HandlerLevels : k <= j

(* the steps of level k that follow the step in which the exception arose *)
RemainingSteps(k) == IF k = 1 THEN StepsOf(3) ELSE StepsOf(ExcTail(k))

(* C14.  An exception thrown in a chain without a handler, at any nesting  *)
(* depth, reaches the handler of the nearest enclosing chain that has one, *)
(* once, with the same error value (and the same extra values); in no      *)
(* chain it passed through, and not in the handling chain, does a          *)
(* remaining step run, so none of the chains without a handler completes   *)
(* normally.                                                               *)
C14_OnEnvironment ==
    (prog.family = "exc" /\ ThrowKind # "after" /\ FirstHandlerLevel > 1) =>
        LET h == ExcLevel(FirstHandlerLevel) IN
        /\ Cardinality(HandlersAt(h)) <= 1
        /\ \A i \in Events("handler") :
              (\A j \in Events("handler") : i <= j) => hist[i].n = h
        /\ \A i \in HandlersAt(h) :
              /\ hist[i].e = 1
              /\ hist[i].args = <<ThrownErr>> \o ThrownExtra
        /\ \A k \in 1..FirstHandlerLevel : RemainingSteps(k) = {}
        /\ Quiescent => Cardinality(HandlersAt(h)) = 1

(* C14 as stated.  The same at every nesting: an exception thrown in a     *)
(* Chain without a handler that runs as a branch of a Parallel Chain       *)
(* reaches the handler of the Parallel Chain, once, with the same error.   *)
C14_Propagation ==
    /\ C14_OnEnvironment
    /\ (prog.family = "pexc" /\ Node(3).exc = "none" /\ Node(4).exc # "none") =>
          /\ \A i \in HandlersAt(4) : hist[i].args = <<ErrBase + 1>>
          /\ Quiescent => Cardinality(HandlersAt(4)) = 1

-----------------------------------------------------------------------------
(* an exception arises and no scope keeps it: every chain of an exc        *)
(* program is without a handler or has one that throws again; a Parallel   *)
(* Chain with a throwing branch has no enclosing handler                   *)
NothingHandles ==
    \/ /\ prog.family = "exc" /\ ThrowKind # "after"
       /\ \A k \in Levels : Node(ExcLevel(k)).exc \in {"none", "rethrow"}
    \/ /\ prog.family \in {"parallel", "join"} /\ Throwers # {} /\ HandlerNode = 0

UncaughtLogs ==
    {i \in 1..Len(logs) : logs[i].msg = "Uncaught exception -- processing chain terminated"}

(* C15 as stated.  An exception that finds no handler left on the exception stack:   *)
(* the terminal after of the invocation is never called, the logging sink  *)
(* receives the uncaught notification exactly once, followed by one line   *)
(* with a non-empty back trace and by nothing else, no step starts and no  *)
(* continuation is called after it, and no failure reaches the host.       *)
C15_Uncaught ==
    NothingHandles =>
        /\ Afters = {}
        /\ ~crashed
        /\ Cardinality(UncaughtLogs) <= 1
        /\ \A i \in UncaughtLogs :
              /\ i = 1 /\ Len(logs) = 2
              /\ logs[2].msg = "Backtrace: " /\ logs[2].bt # <<>>
              /\ \A j \in Events("step") \cup Events("cont") : j <= logs[i].at
        /\ logs # <<>> => UncaughtLogs # {}
        /\ Quiescent => Cardinality(UncaughtLogs) = 1

-----------------------------------------------------------------------------
NoAfterLogs ==
    {i \in 1..Len(logs) :
        logs[i].msg = "Caught exception, but no after() exists -- processing chain terminated"}

(* C16 as stated.  When nothing has been thrown on the Environment, a call *)
(* of $catch invokes no continuation: nothing runs after it, the terminal  *)
(* after included, and the logging sink receives the "no after()"          *)
(* notification exactly once; also when a nested chain has completed       *)
(* normally before the call.                                               *)
C16_CatchWithoutThrow ==
    prog.family = "catch" =>
        \A i \in Events("caught") :
            /\ \A j \in 1..Len(hist) : hist[j].ev \in {"step", "after"} => j < i
            /\ Cardinality(NoAfterLogs) = 1

-----------------------------------------------------------------------------
(* the nearest level above k that has a handler, 0 if none *)
NextHandlerLevel(k) ==
    LET above == {j \in HandlerLevels : j > k} IN
    IF above = {} THEN 0 ELSE CHOOSE j \in above : \A l \in above : j <= l

LevelOf(n) == (n - 2) \div 2

(* C17.  A handler that calls $throw again hands the exception to the      *)
(* handler of the next enclosing chain that has one, which receives the    *)
(* error, or to the uncaught report when there is none; the exception      *)
(* reaches the handlers from the innermost outwards and no handler is      *)
(* invoked a second time.                                                  *)
C17_Rethrow ==
    (prog.family = "exc" /\ ThrowKind # "after") =>
        /\ \A k \in HandlerLevels : Cardinality(HandlersAt(ExcLevel(k))) <= 1
        /\ \A i \in Events("handler") :
              /\ (\A j \in Events("handler") : i <= j) => LevelOf(hist[i].n) = FirstHandlerLevel
              /\ Node(hist[i].n).exc = "rethrow" =>
                    LET next == NextHandlerLevel(LevelOf(hist[i].n)) IN
                    IF next = 0
                    THEN /\ UncaughtLogs = {1}
                         /\ \A j \in Events("handler") : j <= i
                    ELSE /\ i + 1 \in HandlersAt(ExcLevel(next))
                         /\ hist[i + 1].args = <<ThrownErr>>
              /\ Node(hist[i].n).exc # "rethrow" =>
                    /\ \A j \in Events("handler") : j <= i
                    /\ UncaughtLogs = {}

C17_Witness ==
    /\ prog.family = "exc" /\ ThrowKind = "ethrow"
    /\ ExcDepth = 3
    /\ Node(ExcLevel(1)).exc = "rethrow" /\ Node(ExcLevel(2)).exc = "none"
    /\ Node(ExcLevel(3)).exc = "rethrow"
    /\ \E i \in HandlersAt(ExcLevel(1)) : i + 1 \in HandlersAt(ExcLevel(3))
    /\ UncaughtLogs = {1}

-----------------------------------------------------------------------------
(* programs in which a step's callable fails natively: a Serial Chain      *)
(* step, Parallel Chain branches, a Branch condition or a Branch path      *)
NativeFailure ==
    \/ prog.family = "exc" /\ ThrowKind = "throw"
    \/ /\ prog.family \in {"parallel", "join"} /\ Throwers # {}
       /\ \A k \in Throwers : Node(ParKids[k]).beh.kind = "throw"
    \/ prog.family = "bthrow"

(* the composition whose handler is the nearest to the failing step, 0 if  *)
(* no enclosing composition has a handler                                  *)
NearestHandler ==
    IF prog.family = "exc"
    THEN (IF FirstHandlerLevel = 0 THEN 0 ELSE ExcLevel(FirstHandlerLevel))
    ELSE IF prog.family = "bthrow"
    THEN (IF Node(prog.root).exc # "none" THEN prog.root ELSE 0)
    ELSE HandlerNode

(* C18 as stated.  A native failure raised by a step's callable (a Serial Chain      *)
(* step, a Parallel Chain branch, a Branch condition, a Branch path) does  *)
(* not reach the scheduler or the caller (call has already returned when   *)
(* it is raised, and no turn fails): the nearest handler is invoked        *)
(* with exactly the raised value (for a Parallel Chain the value raised    *)
(* last), and without a handler the exception is reported as uncaught.     *)
C18_NativeFailure ==
    NativeFailure =>
        /\ ~crashed
        /\ \A i \in Events("threw") : \E j \in Events("returned") : j < i
        /\ \A i \in Events("handler") :
              (\A j \in Events("handler") : i <= j) =>
                  /\ hist[i].n = NearestHandler
                  /\ \E j \in Events("threw") :
                        /\ j < i
                        /\ hist[i].args = hist[j].args
                        /\ \A l \in Events("threw") : l < i => l <= j
        /\ Quiescent =>
              /\ NearestHandler # 0 => Events("handler") # {}
              /\ NearestHandler = 0 => Events("handler") = {} /\ UncaughtLogs = {1}

-----------------------------------------------------------------------------
InStack(x, st) == \E k \in 1..Len(st) : st[k] = x

(* C19.  The chains of the family exc bind the Environment to their after. *)
(* The terminal after receives the Environment as its first argument, and  *)
(* that Environment holds the value the first step pushed: when no step    *)
(* throws, and when the handler of the outermost chain calls $catch (the   *)
(* after is then invoked from $catch).  In both cases it runs once.        *)
C19_BoundAfter ==
    (prog.family = "exc" /\ Node(prog.root).bind) =>
        /\ \A i \in Afters :
              /\ hist[i].args # <<>>
              /\ hist[i].args[1] = EnvBase + 1
              /\ InStack(77, envs[1].stack)
        /\ (Quiescent /\ ThrowKind = "after") => Cardinality(Afters) = 1
        /\ (Quiescent /\ HandlersAt(prog.root) # {} /\ Node(prog.root).exc = "catch") =>
              /\ Cardinality(Afters) = 1
              /\ \A i \in Afters : /\ hist[i].args = <<EnvBase + 1>>
                                   /\ \E j \in HandlersAt(prog.root) : j < i

C19_Witness ==
    /\ prog.family = "exc" /\ Node(prog.root).bind
    /\ ThrowKind = "ethrow" /\ ExcDepth = 1 /\ Node(prog.root).exc = "catch"
    /\ HandlersAt(prog.root) # {}
    /\ StepsOf(3) = {}
    /\ \E i \in Afters : hist[i].args = <<EnvBase + 1>>
    /\ envs[1].stack = <<77>>

-----------------------------------------------------------------------------
(* C20 as stated.  Invoking a chain that has no step completes: the        *)
(* terminal after is invoked exactly once and no turn of the scheduler     *)
(* fails.                                                                  *)
C20_EmptyChainCompletes ==
    prog.family = "empty" =>
        /\ ~crashed
        /\ Cardinality(Afters) <= 1
        /\ Quiescent => Cardinality(Afters) = 1

-----------------------------------------------------------------------------
(* the plain functions of the program *)
UserFunctions == {n \in 1..Len(prog.nodes) : Node(n).type = "fn"}

(* C21 as stated.  A composition invoked without an after terminates       *)
(* gracefully: no failure is raised at the invocation or later, every step *)
(* runs, and at the end the composition's entry is gone from the           *)
(* Environment's exception stack.                                          *)
C21_NoAfterGraceful ==
    prog.family = "noafter" =>
        /\ ~crashed
        /\ Quiescent =>
              /\ envs[1].exstack = <<>>
              /\ \A n \in UserFunctions :
                    \/ (Node(prog.root).type = "branch" /\ n = Node(prog.root).iff)
                    \/ StepsOf(n) # {}

-----------------------------------------------------------------------------
(* the chain that is used twice, and the order of the steps of one pass *)
Reused == IF prog.family = "nested" THEN Node(prog.root).kids[1] ELSE prog.root

RECURSIVE Repeat(_, _)
Repeat(seq, k) == IF k = 0 THEN <<>> ELSE seq \o Repeat(seq, k - 1)

PassOrder ==
    LET v == Node(Reused) IN
    IF v.type = "loop"
    THEN Repeat(<<v.cond>> \o v.kids, Node(v.cond).beh.m) \o <<v.cond>>
    ELSE v.kids

IsStep(h) == h.ev = "step"

(* the functions run on Environment e, in the order they ran *)
StepOrder(e) ==
    LET steps == SelectSeq(hist, IsStep)
        mine == {i \in 1..Len(steps) : steps[i].e = e}
        nth(k) == CHOOSE i \in mine : Cardinality({j \in mine : j <= i}) = k
    IN  [k \in 1..Cardinality(mine) |-> steps[nth(k)].n]

IsPrefix(a, b) == Len(a) <= Len(b) /\ a = SubSeq(b, 1, Len(a))

AftersOf(e) == {i \in Afters : hist[i].e = e}

Settled == pc = "again" /\ ~crashed /\ nt = <<>> /\ pend = {}

(* C22.  One chain object in flight twice.  Two invocations of a Serial or *)
(* Loop Chain with distinct Environments, interleaved in any way: on each  *)
(* Environment the steps of one pass run in order, none skipped and none   *)
(* repeated, and each invocation's own after fires once, after its last    *)
(* step.  The same chain as both steps of an outer chain: its pass runs    *)
(* twice, in order, and the terminal after fires once.                     *)
C22_Reuse ==
    /\ prog.family = "twice" =>
          /\ ~crashed
          /\ IsPrefix(StepOrder(1), PassOrder)
          /\ IsPrefix(StepOrder(2), PassOrder)
          /\ Cardinality(AftersOf(0)) <= 1 /\ Cardinality(AftersOf(2)) <= 1
          /\ AftersOf(0) # {} => StepOrder(1) = PassOrder
          /\ AftersOf(2) # {} => StepOrder(2) = PassOrder
          /\ Settled => /\ Cardinality(AftersOf(0)) = 1
                        /\ Cardinality(AftersOf(2)) = 1
    /\ prog.family = "nested" =>
          /\ ~crashed
          /\ IsPrefix(StepOrder(1), PassOrder \o PassOrder)
          /\ Cardinality(Afters) <= 1
          /\ Afters # {} => StepOrder(1) = PassOrder \o PassOrder
          /\ Quiescent => Cardinality(Afters) = 1

(* both invocations are half-way, the second one further than the first *)
C22_Witness ==
    /\ prog.family = "twice" /\ Node(prog.root).type = "serial"
    /\ pc = "again"
    /\ StepOrder(1) = <<1>> /\ StepOrder(2) = <<1, 2>>
    /\ Afters = {}

-----------------------------------------------------------------------------
(* the scheduler's log: the positions of the queueTick calls and of the    *)
(* entries run, in order                                                   *)
SchedAt(op) == {i \in 1..Len(sched) : sched[i].op = op}
Nth(set, k) == CHOOSE i \in set : Cardinality({j \in set : j <= i}) = k
Queued == [k \in 1..Cardinality(SchedAt("queue")) |-> Nth(SchedAt("queue"), k)]
Ran == [k \in 1..Cardinality(SchedAt("run")) |-> Nth(SchedAt("run"), k)]

(* the drain during which the event at position i happened, 0 outside *)
DrainAt(i) ==
    LET before == {j \in 1..(i - 1) : sched[j].op \in {"run", "done"}}
        last == CHOOSE j \in before : \A l \in before : l <= j
    IN  IF before = {} THEN 0
        ELSE IF sched[last].op = "run" THEN sched[last].drain ELSE 0

(* C23.  The k-th entry run is the k-th entry passed to queueTick, with    *)
(* its arguments, and it runs after it was queued: entries run in the      *)
(* order queued, none twice.  An entry queued by an entry running in a     *)
(* drain is run in that same drain.  When no drain is registered with the  *)
(* host, every entry queued has been run.                                  *)
C23_SchedulerFifo ==
    /\ Len(Ran) <= Len(Queued)
    /\ \A k \in 1..Len(Ran) :
          /\ sched[Ran[k]].c = sched[Queued[k]].c
          /\ sched[Ran[k]].args = sched[Queued[k]].args
          /\ Queued[k] < Ran[k]
          /\ DrainAt(Queued[k]) # 0 => sched[Ran[k]].drain = DrainAt(Queued[k])
    /\ \A i \in SchedAt("done") :
          \A k \in 1..Len(Queued) : Queued[k] < i => k <= Len(Ran) /\ Ran[k] < i
    /\ (~crashed /\ nt = <<>>) => Len(Ran) = Len(Queued)

(* two entries queued before the drain and one queued by the first of them *)
(* have all run in the first drain, in the order queued                    *)
C23_Witness ==
    /\ prog.family = "twice"
    /\ Len(Ran) >= 3
    /\ Queued[1] < Queued[2] /\ Queued[2] < Ran[1] /\ Ran[1] < Queued[3]
    /\ sched[Ran[3]].drain = 1
    /\ sched[Ran[1]].c # sched[Ran[2]].c

-----------------------------------------------------------------------------
(* the drains (runTick) registered with the host and not yet finished *)
Registered == Cardinality({i \in 1..Len(nt) : nt[i].c = RunTickFn})

(* C24.  At most one drain is registered with the host at any time.        *)
(* Outside a drain, the pending flag is set if and only if the queue holds *)
(* an entry, and then exactly one drain is registered; during a drain the  *)
(* flag stays set.  When a drain has finished and nothing was queued       *)
(* since, the queue is empty, the flag is cleared and no drain is          *)
(* registered.                                                             *)
C24_SchedulerInvariant ==
    /\ Registered <= 1
    /\ ~crashed =>
          /\ tpos = 0 => (tickSet <=> tq # <<>>)
          /\ tpos > 0 => tickSet
          /\ tickSet <=> Registered = 1
    /\ (sched # <<>> /\ sched[Len(sched)].op = "done") =>
          /\ tq = <<>> /\ tpos = 0
          /\ ~tickSet
          /\ Registered = 0

(* queueTick was called a second time while a drain was pending *)
C24_Witness ==
    /\ prog.family = "twice" /\ pc = "again"
    /\ tpos = 0 /\ Len(tq) = 2
    /\ tickSet /\ Registered = 1
    /\ SchedAt("done") # {}

-----------------------------------------------------------------------------
(* the step list after the mutation d of the list fns, position by         *)
(* position                                                                *)
Edited(fns, d) ==
    LET len == Len(fns)
        at == CASE d.op = "insert" -> (IF d.pos < len THEN d.pos ELSE len)
                [] d.op = "remove" -> d.pos
                [] d.op = "push" -> len
                [] d.op = "pop" -> len - 1
                [] OTHER -> 0
    IN  IF d.op \in {"insert", "push", "unshift"}
        THEN [k \in 1..(len + 1) |->
                 IF k <= at THEN fns[k] ELSE IF k = at + 1 THEN d.fn ELSE fns[k - 1]]
        ELSE IF at >= len \/ at < 0 THEN fns
        ELSE [k \in 1..(len - 1) |-> IF k <= at THEN fns[k] ELSE fns[k + 1]]

(* C25.  insert(step, pos) places the step at index pos and shifts the     *)
(* later steps by one (at the end when pos exceeds the length);            *)
(* remove(pos) removes the step at pos, nothing when pos is at or beyond   *)
(* the length; push/pop and unshift/shift act on the last/first position;  *)
(* the other steps keep their order, and an invocation runs the mutated    *)
(* list, in order.                                                         *)
C25_Mutators ==
    prog.family = "mutate" =>
        /\ prog.did.op \in EditOps => RootKids = Edited(prog.was, prog.did)
        /\ IsPrefix(StepOrder(1), RootKids)
        /\ Afters # {} => StepOrder(1) = RootKids
        /\ Quiescent => StepOrder(1) = RootKids

(* f3 was inserted beyond the end, then the first step was removed, and    *)
(* the chain has run                                                       *)
C25_Witness ==
    /\ prog.family = "mutate"
    /\ prog.was = <<1, 2, 3>> /\ prog.did = Edit("remove", 0, 0)
    /\ StepOrder(1) = <<2, 3>> /\ Afters # {}

-----------------------------------------------------------------------------
(* the compositions active on Environment e (entered and neither completed *)
(* nor unwound), in the order they were entered                            *)
ActiveOn(e) == {a \in 1..Len(acts) : acts[a].e = e /\ acts[a].live}

(* C26 as stated.  Between scheduler entries, on every Environment and     *)
(* every LocalEnvironment, the depth of the exception-handler stack is the *)
(* number of compositions active on it, and the entries are those of the   *)
(* active compositions in the order they were entered: each entry is       *)
(* removed once, by the after glue on completion or by $throw on           *)
(* unwinding, so that after an inner composition's exception is caught the *)
(* enclosing composition's entry is the topmost one.                       *)
C26_HandlerStackBalance ==
    \A e \in 1..Len(envs) :
       /\ Len(envs[e].exstack) = Cardinality(ActiveOn(e))
       /\ \A k \in 1..Len(envs[e].exstack) :
             envs[e].exstack[k].h = ExceptionHandler(Nth(ActiveOn(e), k))

-----------------------------------------------------------------------------
(* C27 as stated.  The call-context frame of a composition is popped       *)
(* once, on the normal path and on the path through a handler and $catch   *)
(* alike: on the caller's Environment the saved-pointer stack holds one    *)
(* pointer for each active composition, it is never popped when empty, and *)
(* the current-context pointer of an Environment is never undefined.       *)
C27_ContextBalance ==
    /\ Len(envs[1].cstack) = Cardinality(ActiveOn(1))
    /\ \A e \in 1..Len(envs) : envs[e].cur # Undef

-----------------------------------------------------------------------------
(* C28 as stated.  A native failure of a Loop Chain's condition, on the    *)
(* first check or on a re-check, reaches neither the caller of the         *)
(* invocation nor the scheduler: it is handed to $throw, so that the       *)
(* nearest handler receives it, or it is reported as uncaught.             *)
C28_LoopConditionFailure ==
    prog.family = "loopthrow" =>
        /\ ~crashed
        /\ (Quiescent /\ Events("threw") # {}) =>
              IF Node(prog.root).exc = "catch"
              THEN \E i \in HandlersAt(prog.root) : hist[i].args = <<ErrBase + 1>>
              ELSE UncaughtLogs = {1}

-----------------------------------------------------------------------------
(* the second step of the family args is under-supplied: it declares more  *)
(* parameters than its predecessor passed; Missing values are taken from   *)
(* the stack, which holds what the predecessor pushed                      *)
UnderSupplied == prog.family = "args" /\ Len(ArgsOut) < ArityTwo
Missing == ArityTwo - Len(ArgsOut)
StackHeld == Len(ArgsPushed)

(* C29.  A step of arity a called with n < a arguments, the stack holding  *)
(* at least a - n values: it receives the last a - n values of the stack,  *)
(* oldest first, followed by the n arguments, a arguments in all, and      *)
(* those values are gone from the stack.  When the stack holds fewer, it   *)
(* receives all of them followed by the n arguments, fewer than a in all,  *)
(* and the stack is left empty.                                            *)
C29_UnderSupply ==
    UnderSupplied =>
        \A i \in StepsOf(2) :
            IF StackHeld >= Missing
            THEN /\ hist[i].args = SubSeq(ArgsPushed, StackHeld - Missing + 1, StackHeld) \o ArgsOut
                 /\ Len(hist[i].args) = ArityTwo
                 /\ hist[i].stack = SubSeq(ArgsPushed, 1, StackHeld - Missing)
            ELSE /\ hist[i].args = ArgsPushed \o ArgsOut
                 /\ Len(hist[i].args) < ArityTwo
                 /\ hist[i].stack = <<>>

(* arity 2, one argument, two values on the stack: the newer one is taken *)
C29_Witness ==
    /\ UnderSupplied
    /\ ArityTwo = 2 /\ ArgsOut = <<1>> /\ ArgsPushed = <<1, 2>>
    /\ \E i \in StepsOf(2) : hist[i].args = <<2, 1>> /\ hist[i].stack = <<1>>

(* C29 as stated: whatever the stack holds, the step receives exactly a    *)
(* arguments, the last a - n values of the stack followed by the n         *)
(* arguments                                                               *)
C29_AlwaysArity ==
    UnderSupplied =>
        \A i \in StepsOf(2) :
            /\ Len(hist[i].args) = ArityTwo
            /\ SubSeq(hist[i].args, Missing + 1, ArityTwo) = ArgsOut

-----------------------------------------------------------------------------
Values(seq) == {seq[k] : k \in 1..Len(seq)}

(* C30.  A Parallel Chain invoked on an Environment whose value stack      *)
(* holds 1 and 2: that stack never changes.  Branch k runs on its own      *)
(* LocalEnvironment (child of the caller's, thread id k - 1); it receives  *)
(* the broadcast arguments adapted to its arity against an empty stack,    *)
(* and what it pops, and what it leaves on its stack, are only surplus     *)
(* arguments and the value it pushed itself, never a value of the parent   *)
(* or of the other branch.                                                 *)
C30_StackIsolation ==
    prog.family = "pstack" =>
        /\ pc = "running" => envs[1].stack = prog.stack
        /\ \A k \in 1..2 : \A i \in StepsOf(k) :
              /\ hist[i].e = k + 1
              /\ envs[k + 1].parent = 1 /\ envs[k + 1].tid = k - 1
              /\ hist[i].args = AdaptedArgs(<<>>, Node(k).params, prog.args)
              /\ hist[i].stack = AdaptedStack(<<>>, Node(k).params, prog.args)
              /\ Values(hist[i].popped) \subseteq Values(prog.args) \cup {Undef}
              /\ Values(envs[k + 1].stack) \subseteq Values(prog.args) \cup {10 + k}
        /\ Cardinality(Afters) <= 1
        /\ Quiescent => StepsOf(1) # {} /\ StepsOf(2) # {} /\ Cardinality(Afters) = 1

(* the first branch kept a surplus argument and its own value on its       *)
(* stack; the second, under-supplied, found nothing on its stack           *)
C30_Witness ==
    /\ prog.family = "pstack" /\ prog.args = <<5>>
    /\ Node(1).params = 0 /\ Node(2).params = 2 /\ Node(2).beh.pops = 1
    /\ Len(envs) = 3
    /\ envs[1].stack = <<1, 2>> /\ envs[2].stack = <<5, 11>> /\ envs[3].stack = <<12>>
    /\ \E i \in StepsOf(2) : hist[i].args = <<5>> /\ hist[i].popped = <<Undef>>
    /\ Afters # {}

-----------------------------------------------------------------------------
(* C31.  Parallel Chain initiation: in the host turn that starts the       *)
(* branches every branch is started, in step-list order, whether or not    *)
(* an earlier branch failed natively or called $throw; branch k runs once, *)
(* on a LocalEnvironment of its own whose parent is the caller's and whose *)
(* thread id is k - 1, and is handed the same call arguments (adapted to   *)
(* its arity against its empty stack); every branch that does not fail     *)
(* completes, and the chain terminates once all have.                      *)
C31_ParallelInitiation ==
    prog.family = "pinit" =>
        LET N == Len(RootKids) IN
        /\ Events("step") # {} => \A k \in 1..N : StepsOf(k) # {}
        /\ \A k \in 1..N : Cardinality(StepsOf(k)) <= 1
        /\ \A k \in 1..N : \A i \in StepsOf(k) :
              /\ hist[i].e # 1
              /\ envs[hist[i].e].parent = 1
              /\ envs[hist[i].e].tid = k - 1
              /\ hist[i].stack \o hist[i].args = prog.args
              /\ \A j \in 1..N : \A l \in StepsOf(j) :
                    /\ hist[l].at.turns = hist[i].at.turns
                    /\ j < k => l < i /\ hist[l].e # hist[i].e /\ envs[hist[l].e].tid # k - 1
        /\ Quiescent =>
              /\ \A k \in 1..N : Node(k).beh.kind \in {"after", "defer"} => ContsOf(k) # {}
              /\ \A k \in 1..N : Node(k).beh.kind \in {"throw", "ethrow"} =>
                                      \E i \in Events("threw") : hist[i].n = k
              /\ (\A k \in 1..N : Node(k).beh.kind \in {"after", "defer"})
                    => Cardinality(Afters) = 1
              /\ (\E k \in 1..N : Node(k).beh.kind \in {"throw", "ethrow"})
                    => Afters = {} /\ logs # <<>>

(* the first branch failed natively, the second called $throw, and the     *)
(* third was started all the same and completed from a later event         *)
C31_Witness ==
    /\ prog.family = "pinit" /\ Len(RootKids) = 3 /\ prog.args = <<5>>
    /\ Node(1).beh.kind = "throw" /\ Node(2).beh.kind = "ethrow"
    /\ Node(3).beh.kind = "defer" /\ Node(3).params = 1
    /\ \E i \in StepsOf(3) : hist[i].args = <<5>> /\ envs[hist[i].e].tid = 2
    /\ ContsOf(3) # {}
    /\ Quiescent

-----------------------------------------------------------------------------
(* values that only a succeeding branch or the results array can be the    *)
(* origin of                                                               *)
BranchResults == {10 + k : k \in 1..MaxBranches} \cup {ArrBase + a : a \in 1..Len(arrs)}

(* C32 as stated.  A Parallel Chain in which several branches fail: the enclosing    *)
(* handler is given one error only, that of the branch whose failure came  *)
(* last in time, whatever its index; no handler and no after is given      *)
(* another branch's error, a branch's result or the results array, and a   *)
(* terminal after that fires (the handler caught) is given no argument.    *)
C32_LastFailureWins ==
    (prog.family \in {"parallel", "join"} /\ Cardinality(Throwers) >= 2) =>
        /\ Cardinality(Events("handler")) <= 1
        /\ \A i \in Events("handler") :
              \E j \in Events("threw") :
                 /\ \A l \in Events("threw") : l <= j
                 /\ j < i
                 /\ hist[i].args = <<Node(hist[j].n).beh.err>>
        /\ \A i \in Afters : hist[i].args = <<>>
        /\ \A i \in Events("handler") \cup Afters \cup ParAfterCalls :
              Values(hist[i].args) \cap BranchResults = {}
        /\ (Quiescent /\ HandlerNode # 0) =>
              /\ Cardinality(Events("handler")) = 1
              /\ Cardinality(Events("threw")) = Cardinality(Throwers)

-----------------------------------------------------------------------------
(* the element of a results array that stands for the values out *)
HoldsResult(x, out) ==
    CASE Len(out) = 0 -> x = Unset
      [] Len(out) = 1 -> x = out[1]
      [] OTHER -> x - ArrBase \in 1..Len(arrs) /\ arrs[x - ArrBase] = out

(* C33.  A Parallel Chain of N branches none of which fails: the terminal  *)
(* after fires once.  When every branch called its continuation without a  *)
(* value it is given no argument; otherwise it is given one argument, an   *)
(* array of length N whose element i is branch i's value when it passed    *)
(* one, the list of its values when it passed several, and a hole when it  *)
(* passed none.                                                            *)
C33_ResultDelivery ==
    prog.family = "presult" =>
        LET N == Len(RootKids) IN
        /\ Cardinality(Afters) <= 1
        /\ \A i \in Afters :
              IF \A k \in 1..N : Node(k).beh.out = <<>>
              THEN hist[i].args = <<>>
              ELSE /\ Len(hist[i].args) = 1
                   /\ hist[i].args[1] - ArrBase \in 1..Len(arrs)
                   /\ LET r == arrs[hist[i].args[1] - ArrBase] IN
                      /\ Len(r) = N
                      /\ \A k \in 1..N : HoldsResult(r[k], Node(k).beh.out)
        /\ Quiescent => Cardinality(Afters) = 1

(* three branches, completing from later events: the second passed         *)
(* nothing, the third two values                                           *)
C33_Witness ==
    /\ prog.family = "presult" /\ Len(RootKids) = 3
    /\ Node(1).beh.kind = "defer"
    /\ Node(1).beh.out = <<11>> /\ Node(2).beh.out = <<>> /\ Node(3).beh.out = <<13, 23>>
    /\ \E i \in Afters :
          /\ Len(hist[i].args) = 1
          /\ LET r == arrs[hist[i].args[1] - ArrBase] IN
             r[1] = 11 /\ r[2] = Unset /\ arrs[r[3] - ArrBase] = <<13, 23>>

-----------------------------------------------------------------------------
(* what the first step of a pnest program passes on, and what the          *)
(* enclosing chain hands to the Parallel Chain: as many leading values as  *)
(* the Parallel Chain's first branch declares                              *)
NestOut == Node(1).beh.out
NestGiven == AdaptedArgs(<<>>, Node(2).params, NestOut)

(* C34 (as amended).  A Parallel Chain's declared arity is the arity of    *)
(* its first branch.  Nested as a step of a Serial Chain it is passed that *)
(* many leading arguments of what the previous step produced, the rest     *)
(* going to the value stack of the enclosing Environment; every branch is  *)
(* given the passed arguments, adapted to its own arity against its own    *)
(* empty stack.                                                            *)
C34_ParallelArity ==
    prog.family = "pnest" =>
        /\ \A k \in 2..3 : \A i \in StepsOf(k) :
              /\ hist[i].args = AdaptedArgs(<<>>, Node(k).params, NestGiven)
              /\ hist[i].stack = AdaptedStack(<<>>, Node(k).params, NestGiven)
              /\ envs[1].stack = AdaptedStack(<<>>, Node(2).params, NestOut)
        /\ Quiescent => StepsOf(2) # {} /\ StepsOf(3) # {} /\ Cardinality(Afters) = 1

(* the first branch declares one parameter, the previous step produced 5   *)
(* and 6: 5 was passed to the Parallel Chain and reached both branches, 6  *)
(* went to the value stack                                                 *)
C34_Witness ==
    /\ prog.family = "pnest" /\ NestOut = <<5, 6>>
    /\ Node(2).params = 1 /\ Node(3).params = 0
    /\ envs[1].stack = <<6>>
    /\ \E i \in StepsOf(2) : hist[i].args = <<5>> /\ hist[i].stack = <<>>
    /\ \E i \in StepsOf(3) : hist[i].args = <<>> /\ hist[i].stack = <<5>>
    /\ Afters # {}

(* C34 as stated: the Parallel Chain is passed no leading argument         *)
(* whatever its branches declare, and everything the previous step         *)
(* produced is on the value stack                                          *)
C34_ArityZero ==
    prog.family = "pnest" =>
        \A k \in 2..3 : \A i \in StepsOf(k) :
            /\ hist[i].args = <<>>
            /\ envs[1].stack = NestOut

-----------------------------------------------------------------------------
(* the back traces that were logged *)
Traces == {i \in 1..Len(logs) : logs[i].msg = "Backtrace: "}

TraceWrapped == Node(Node(prog.root).kids[2]).type = "serial"

(* C35 (as amended).  The back trace walks the call-context tree from the  *)
(* root and, at each node, continues to the next sibling when the node has *)
(* one and descends into the child only otherwise, the depth growing by    *)
(* one exactly when it descends; head nodes are left out.  So the trace is *)
(* the path from the root to the frame that is current, without the bodies *)
(* of the compositions that were left before: for outer = Chain(inner,     *)
(* last) whose step last fails after inner completed, the trace reported   *)
(* with the uncaught exception is outer, inner, last, env.$throw, and      *)
(* names no step of inner and no step inside last.                         *)
C35_BackTrace ==
    /\ \A i \in Traces :
          LET bt == logs[i].bt IN
          /\ \A k \in 1..Len(bt) : bt[k][1] # "__ContextHead__"
          /\ bt # <<>> => bt[1][2] = 0
          /\ \A k \in 1..(Len(bt) - 1) : bt[k + 1][2] - bt[k][2] \in {0, 1}
    /\ prog.family = "trace" =>
          /\ \A i \in Traces :
                logs[i].bt = << <<"outer", 0>>, <<"inner", 1>>,
                                <<IF TraceWrapped THEN "second" ELSE "boom", 1>>,
                                <<"env.$throw", 1>> >>
          /\ Quiescent => Cardinality(Traces) = 1

(* inner had two steps and last was the chain second: neither a1, a2 nor   *)
(* boom is in the trace                                                    *)
C35_Witness ==
    /\ prog.family = "trace" /\ TraceWrapped
    /\ \E i \in 1..Len(ctxs) : ctxs[i].name = "a2"
    /\ \E i \in 1..Len(ctxs) : ctxs[i].name = "inner" /\ ctxs[i].child # Null /\ ctxs[i].next # Null
    /\ \E i \in Traces : Len(logs[i].bt) = 4 /\ logs[i].bt[3] = <<"second", 1>>

(* C35 as stated: the walk descends into the child when the node has one   *)
(* and continues to the next sibling otherwise                             *)
C35_ChildFirst ==
    (prog.family = "trace" /\ Quiescent) =>
        \A i \in Traces : logs[i].bt = bt_walk_child_first(ctxs, envs[1].first, 0)

-----------------------------------------------------------------------------
(* what the foreign API called the callback of a check program with *)
CbArgs == Node(1).beh.out
CbErr == IF CbArgs = <<>> THEN Undef ELSE CbArgs[1]
CbRest == IF CbArgs = <<>> THEN <<>> ELSE Tail(CbArgs)

(* C36.  The callback env.$check(after), called with (err, rest...): when  *)
(* err is truthy it throws err through the Environment, once, the handler  *)
(* being given err alone, and after is not called by it (the terminal      *)
(* after fires only if the handler catches, and then without arguments);   *)
(* when err is falsy (or there is no argument) it calls after once with    *)
(* rest, in order, and nothing is thrown, handled or logged.               *)
C36_CheckError ==
    prog.family = "check" =>
        IF Truthy(CbErr)
        THEN /\ ContsOf(1) = {}
             /\ Cardinality(Events("threw")) <= 1
             /\ Cardinality(Events("handler")) <= 1
             /\ \A i \in Events("threw") : hist[i].args = <<CbErr>>
             /\ \A i \in Events("handler") : hist[i].args = <<CbErr>>
             /\ \A i \in Afters : hist[i].args = <<>> /\ \E j \in Events("handler") : j < i
             /\ Quiescent =>
                   /\ Cardinality(Events("threw")) = 1
                   /\ IF Node(prog.root).exc = "catch"
                      THEN Cardinality(Events("handler")) = 1 /\ Cardinality(Afters) = 1
                      ELSE Len(logs) = 2 /\ Afters = {}
        ELSE /\ Events("threw") = {} /\ Events("handler") = {} /\ logs = <<>>
             /\ Cardinality(ContsOf(1)) <= 1
             /\ Cardinality(Afters) <= 1
             /\ \A i \in Afters : hist[i].args = CbRest
             /\ Quiescent => Cardinality(Afters) = 1 /\ ~crashed

(* the callback was called later with (0, 7, 8): after got 7 and 8      *)
C36_Witness ==
    /\ prog.family = "check" /\ Node(1).beh.kind = "defercheck"
    /\ CbArgs = <<0, 7, 8>>
    /\ Events("handler") = {}
    /\ \E i \in Afters : hist[i].args = <<7, 8>>

-----------------------------------------------------------------------------
(* every step calls its continuation once or throws once, and every        *)
(* handler catches or re-throws                                            *)
WellBehaved ==
    \A n \in 1..Len(prog.nodes) :
        /\ Node(n).type = "fn" => Node(n).beh.kind # "catch"
        /\ Node(n).exc \in {"none", "catch", "rethrow"}

(* the invocations of the terminal after given to the call on Environment  *)
(* e (0: the caller's first call)                                          *)
AftersFor(e) == {i \in Afters : hist[i].e = e}

(* C37.  At-most-once completion: whatever the composition tree, when      *)
(* every step calls its continuation once or throws once and every handler *)
(* catches or re-throws, the terminal after of an invocation is invoked at *)
(* most once.                                                              *)
C37_AtMostOnce ==
    WellBehaved => \A e \in 0..Len(envs) : Cardinality(AftersFor(e)) <= 1

(* the tree of all four kinds: the loop ran its body twice, both branches  *)
(* of the Parallel Chain completing from later events in each pass, and    *)
(* the terminal after fired                                                *)
C37_Witness ==
    /\ prog.family = "tree" /\ WellBehaved
    /\ Node(1).beh.m = 2 /\ Node(2).beh.kind = "defer"
    /\ Cardinality(StepsOf(2)) = 2 /\ Cardinality(StepsOf(4)) = 2
    /\ StepsOf(9) # {}
    /\ Cardinality(Afters) = 1
    /\ Quiescent

-----------------------------------------------------------------------------
(* C38 as stated.  Invoking a Parallel Chain that has no branch completes: *)
(* once nothing is left to run, the terminal after has been invoked        *)
(* exactly once, with no arguments, and a step that follows the Parallel   *)
(* Chain in a chain has run.                                               *)
C38_EmptyParallelCompletes ==
    (prog.family = "pempty" /\ Quiescent) =>
        /\ ~crashed
        /\ Cardinality(Afters) = 1
        /\ \A i \in Afters : hist[i].args = <<>>
        /\ prog.root = 3 => StepsOf(2) # {}

-----------------------------------------------------------------------------
(* C39 as stated.  One chain called on two Environments, the after of the  *)
(* first call failing natively when the scheduler runs it, in a process    *)
(* that survives the failure: the scheduler is never left with its pending *)
(* flag set, entries in its queue and no drain registered with the host;   *)
(* and once the host has nothing left to run, every entry that was queued  *)
(* has been run, also those queued behind the failing one and those queued *)
(* after the failure, so that the second call's after has fired.           *)
C39_SchedulerRobust ==
    prog.family = "drainfail" =>
        /\ (tickSet /\ tq # <<>>) => Registered >= 1
        /\ (pc = "again" /\ nt = <<>> /\ pend = {}) =>
              /\ Len(Ran) = Len(Queued)
              /\ Cardinality(AftersFor(2)) = 1

-----------------------------------------------------------------------------
(* how often the value v occurs in seq *)
Count(seq, v) == Cardinality({i \in 1..Len(seq) : seq[i] = v})

(* C40.  handle_args conserves values: after one call with any arity, any  *)
(* arguments and any stack, every value occurs in (stack after, returned   *)
(* arguments) as often as in (stack before, call arguments); when the      *)
(* arity equals the number of arguments, neither changes; when the arity   *)
(* is not negative and the stack and the arguments together hold at least  *)
(* arity values, exactly arity arguments are returned.                     *)
C40_Conservation ==
    ha # <<>> /\ ha.phase \in {"adapted", "pushed"} =>
        /\ Len(ha.stack) + Len(ha.ret) = Len(ha.before) + Len(ha.args)
        /\ \A v \in ArgValues :
              Count(ha.stack \o ha.ret, v) = Count(ha.before \o ha.args, v)
        /\ ha.params = Len(ha.args) => ha.stack = ha.before /\ ha.ret = ha.args
        /\ (ha.params >= 0 /\ Len(ha.before) + Len(ha.args) >= ha.params)
              => Len(ha.ret) = ha.params

(* arity 2, one argument, two values on the stack: the newer one was taken *)
C40_Witness ==
    /\ ha # <<>> /\ ha.phase = "adapted"
    /\ ha.before = <<1, 2>> /\ ha.args = <<1>> /\ ha.params = 2
    /\ ha.stack = <<1>> /\ ha.ret = <<2, 1>>

====
